---------------------------- MODULE Spec2Model ----------------------------
(***************************************************************************)
(* A model of the Monkey interpreter's front end (adrian83/monkey):        *)
(*   - pkg/lexer: the cursor-based scanner and the goroutine that feeds    *)
(*     its tokens into a buffered channel (Lexer.Tokens);                  *)
(*   - pkg/parser: the Pratt parser reading that channel (two tokens of    *)
(*     lookahead), its error list and ParseProgram;                        *)
(*   - pkg/ast: the String() forms of the nodes.                           *)
(*                                                                         *)
(* A Go string is a sequence of bytes; a byte is written as a one-symbol   *)
(* TLA+ string, the zero byte as NUL.  Two specifications are given:       *)
(*   Spec       the producer goroutine, the channel and a consumer that    *)
(*              reads it as Parser.nextToken does;                         *)
(*   ParseSpec  parser.New and ParseProgram on the token stream;           *)
(*   ReplSpec   the loop of repl.Start over the lines of a session.        *)
(***************************************************************************)
EXTENDS Integers, Sequences, FiniteSets, TLC

VARIABLES
    input,      \* Lexer.input
    position,   \* Lexer.position
    lpc,        \* where the goroutine of Lexer.Tokens stands
    t,          \* its local t
    result,     \* the buffer of the channel `result`
    closed,     \* whether close(result) has happened
    curToken,   \* the consumer's Parser.curToken
    peekToken,  \* the consumer's Parser.peekToken
    got,        \* every value the consumer has received: [tok, ok]
    p,          \* the Parser: [tokens, errors, curToken, peekToken]
    ppc,        \* where the caller of parser.New / ParseProgram stands
    program,    \* the ast.Program that ParseProgram builds
    err,        \* the error that ParseProgram returns
    iters,      \* how many times the loop of ParseProgram has run
    lines,      \* the lines that scanner.Scan has still to yield
    prompts,    \* how many times the prompt was printed
    out,        \* what was written to the io.Writer `out`, one string each
    env,        \* the session environment, as the number of changes to it
    handled     \* for every line read so far, what the REPL did with it

lexVars == <<position, lpc, t, result, closed, curToken, peekToken, got>>
parseVars == <<p, ppc, program, err, iters>>
replVars == <<lines, prompts, out, env, handled>>
vars == <<input, position, lpc, t, result, closed, curToken, peekToken, got,
          p, ppc, program, err, iters, lines, prompts, out, env, handled>>

-----------------------------------------------------------------------------
(* Bounds of the model.                                                    *)

\* the longest input drawn from every string over LexAlphabet
MaxLen == 3
\* the longest of the one-symbol-token inputs that fill the channel buffer
MaxLong == 12
\* how many more times than the input has bytes the consumer calls nextToken
MaxExtraReads == 3
\* the longest input drawn from every sequence of lexemes of ParseLexemes
MaxToks == 3
\* how deep the generated expression sources nest
MaxDepth == 2
\* how many more times than the input has bytes the loop of ParseProgram runs
MaxExtraIters == 2

-----------------------------------------------------------------------------
(* Bytes.                                                                  *)

NUL == "NUL"

Letters ==
    {"a","b","c","d","e","f","g","h","i","j","k","l","m","n","o","p","q","r",
     "s","t","u","v","w","x","y","z",
     "A","B","C","D","E","F","G","H","I","J","K","L","M","N","O","P","Q","R",
     "S","T","U","V","W","X","Y","Z","_"}

Digits == {"0","1","2","3","4","5","6","7","8","9"}

Whitespace == {" ", "\t", "\n", "\r"}

\* isLetter that takes the digits too
isLetterOrDigit(ch) == ch \in Letters \cup Digits

isLetter(ch) == ch \in Letters

isDigit(ch) == ch \in Digits

-----------------------------------------------------------------------------
(* Tokens (package token).                                                 *)

Illegal == "ILLEGAL"
Eof == "EOF"
Ident == "IDENT"
TypeInteger == "INT"
TypeString == "STRING"
OperatorAssign == "="
OperatorPlus == "+"
OperatorMinus == "-"
OperatorBang == "!"
OperatorAsterisk == "*"
OperatorSlash == "/"
OperatorEqual == "=="
OperatorNotEqual == "!="
OperatorLowerThan == "<"
OperatorGreaterThan == ">"
DelimiterComma == ","
DelimiterSemicolon == ";"
DelimiterLeftParenthesis == "("
DelimiterRightParenthesis == ")"
DelimiterLeftBrace == "{"
DelimiterRightBrace == "}"
DelimiterLeftBracket == "["
DelimiterRightBracket == "]"
DelimiterColon == ":"
KeywordFunction == "FUNCTION"
KeywordLet == "LET"
KeywordTrue == "TRUE"
KeywordFalse == "FALSE"
KeywordIf == "IF"
KeywordElse == "ELSE"
KeywordReturn == "RETURN"

\* the bytes that nextToken turns into a token of the same name
SingleCharTokens ==
    {"+", "-", "/", "*", "<", ">", ";", "(", ")", ",", "{", "}", "[", "]", ":"}

newToken(tokenType, literal) == [Type |-> tokenType, Literal |-> literal]

\* the zero value of token.Token, which a receive from a closed channel yields
ZeroToken == [Type |-> "", Literal |-> <<>>]

\* the reserved words as they are written
kwLet == <<"l", "e", "t">>
kwReturn == <<"r", "e", "t", "u", "r", "n">>
kwFn == <<"f", "n">>
kwIf == <<"i", "f">>
kwElse == <<"e", "l", "s", "e">>
kwTrue == <<"t", "r", "u", "e">>
kwFalse == <<"f", "a", "l", "s", "e">>

LookupIdent(ident) ==
    CASE ident = <<"f","n">> -> KeywordFunction
      [] ident = <<"l","e","t">> -> KeywordLet
      [] ident = <<"t","r","u","e">> -> KeywordTrue
      [] ident = <<"f","a","l","s","e">> -> KeywordFalse
      [] ident = <<"i","f">> -> KeywordIf
      [] ident = <<"e","l","s","e">> -> KeywordElse
      [] ident = <<"r","e","t","u","r","n">> -> KeywordReturn
      [] OTHER -> Ident

-----------------------------------------------------------------------------
(* The lexer (pkg/lexer/lexer.go).  The cursor is passed and returned.     *)

\* s[from:to] of Go
Slice(s, from, to) == SubSeq(s, from + 1, to)

peekChar(in, pos) == IF pos >= Len(in) THEN NUL ELSE in[pos + 1]

peekTwoChars(in, pos) ==
    IF pos + 2 >= Len(in) THEN <<>> ELSE Slice(in, pos, pos + 2)

\* readChar's effect on the cursor; no caller that matters uses its result
readChar(pos) == pos + 1

RECURSIVE skipWhitespace(_, _)
skipWhitespace(in, pos) ==
    IF peekChar(in, pos) \in Whitespace
    THEN skipWhitespace(in, readChar(pos))
    ELSE pos

RECURSIVE stringEnd(_, _)
stringEnd(in, pos) ==
    LET ch == peekChar(in, pos) IN
    IF ch # "\"" /\ ch # NUL THEN stringEnd(in, readChar(pos)) ELSE pos

readString(in, pos) ==
    LET end == stringEnd(in, pos) IN
    [Literal |-> Slice(in, pos, end), position |-> end]

RECURSIVE identifierEnd(_, _)
identifierEnd(in, pos) ==
    IF isLetter(peekChar(in, pos)) THEN identifierEnd(in, readChar(pos)) ELSE pos

readIdentifier(in, pos) ==
    LET end == identifierEnd(in, pos) IN
    [Literal |-> Slice(in, pos, end), position |-> end]

RECURSIVE numberEnd(_, _)
numberEnd(in, pos) ==
    IF isDigit(peekChar(in, pos)) THEN numberEnd(in, readChar(pos)) ELSE pos

readNumber(in, pos) ==
    LET end == numberEnd(in, pos) IN
    [Literal |-> Slice(in, pos, end), position |-> end]

EofToken == newToken(Eof, <<>>)

\* lexAssignOrEqual with the cursor left where it is on a lone `=`
lexAssignOrEqualStall(in, pos, ch) ==
    LET chars == peekTwoChars(in, pos) IN
    IF chars = <<"=", "=">>
    THEN [tok |-> [Type |-> OperatorEqual, Literal |-> chars],
          position |-> readChar(readChar(pos))]
    ELSE [tok |-> newToken(OperatorAssign, <<ch>>), position |-> pos]

\* the two-character operators: `=` then `!`
lexAssignOrEqual(in, pos, ch) ==
    LET chars == peekTwoChars(in, pos) IN
    IF chars = <<"=", "=">>
    THEN [tok |-> [Type |-> OperatorEqual, Literal |-> chars],
          position |-> readChar(readChar(pos))]
    ELSE [tok |-> newToken(OperatorAssign, <<ch>>), position |-> readChar(pos)]

lexBangOrNotEqual(in, pos, ch) ==
    LET chars == peekTwoChars(in, pos) IN
    IF chars = <<"!", "=">>
    THEN [tok |-> [Type |-> OperatorNotEqual, Literal |-> chars],
          position |-> readChar(readChar(pos))]
    ELSE [tok |-> newToken(OperatorBang, <<ch>>), position |-> readChar(pos)]

\* lexDefault with the cursor left where it is on an illegal byte
lexDefaultStall(in, pos, ch) ==
    IF isLetter(ch)
    THEN LET r == readIdentifier(in, pos) IN
         [tok |-> [Type |-> LookupIdent(r.Literal), Literal |-> r.Literal],
          position |-> r.position]
    ELSE IF isDigit(ch)
    THEN LET r == readNumber(in, pos) IN
         [tok |-> [Type |-> TypeInteger, Literal |-> r.Literal],
          position |-> r.position]
    ELSE [tok |-> newToken(Illegal, <<ch>>), position |-> pos]

\* the default branch of the switch
lexDefault(in, pos, ch) ==
    IF isLetter(ch)
    THEN LET r == readIdentifier(in, pos) IN
         [tok |-> [Type |-> LookupIdent(r.Literal), Literal |-> r.Literal],
          position |-> r.position]
    ELSE IF isDigit(ch)
    THEN LET r == readNumber(in, pos) IN
         [tok |-> [Type |-> TypeInteger, Literal |-> r.Literal],
          position |-> r.position]
    ELSE [tok |-> newToken(Illegal, <<ch>>), position |-> readChar(pos)]

\* Lexer.nextToken: the token at the cursor and the cursor after it
nextToken(in, pos0) ==
    LET pos == skipWhitespace(in, pos0)
        ch == peekChar(in, pos)
    IN  CASE ch = "\"" ->
               LET r == readString(in, readChar(pos)) IN
               [tok |-> newToken(TypeString, r.Literal),
                position |-> readChar(r.position)]
          [] ch \in SingleCharTokens ->
               [tok |-> newToken(ch, <<ch>>), position |-> readChar(pos)]
          [] ch = NUL -> [tok |-> EofToken, position |-> pos]
          [] ch = "=" -> lexAssignOrEqual(in, pos, ch)
          [] ch = "!" -> lexBangOrNotEqual(in, pos, ch)
          [] OTHER -> lexDefault(in, pos, ch)

\* the loop of Lexer.Tokens read as a pull: nextToken until the first EOF
RECURSIVE LexFrom(_, _)
LexFrom(in, pos) ==
    LET r == nextToken(in, pos) IN
    IF r.tok.Type = Eof THEN <<r.tok>> ELSE <<r.tok>> \o LexFrom(in, r.position)

Lex(in) == LexFrom(in, 0)

-----------------------------------------------------------------------------
(* The channel `result` of Lexer.Tokens: a FIFO buffer of capacity 10.     *)

ChanCap == 10

\* result <- v can proceed
CanSend(buf) == Len(buf) < ChanCap

\* a send that puts the value at the head of the buffer
ChanSendFront(buf, v) == <<v>> \o buf

ChanSend(buf, v) == Append(buf, v)

\* a receive that never waits
CanRecvAtOnce(buf, isClosed) == TRUE

\* <-p.tokens can proceed: a value is buffered, or the channel is closed
CanRecv(buf, isClosed) == buf # <<>> \/ isClosed

\* the value a receive yields, and whether it was sent (ok) or is the zero
\* value of a closed and drained channel
ChanRecv(buf) ==
    IF buf # <<>>
    THEN [tok |-> Head(buf), ok |-> TRUE, buf |-> Tail(buf)]
    ELSE [tok |-> ZeroToken, ok |-> FALSE, buf |-> buf]

-----------------------------------------------------------------------------
(* Inputs of the lexer specification.                                      *)

LexAlphabet == {"=", "!", "a", "1", " ", "\"", "@", "+", NUL}

RepeatAlphabet == {"+", "@"}

\* names and reserved words, with letters, digits and underscores around them
IdentifierInputs ==
    LET words == {kwLet, kwReturn, kwFn, kwIf, kwElse, kwTrue, kwFalse,
                  <<"x">>, <<"_">>, <<"L", "e", "t">>, <<"I", "F">>, <<"f">>,
                  <<"f", "n", "n">>}
        heads == {<<>>, <<"_">>, <<"1">>, <<"x">>, <<" ">>}
        tails == {<<>>, <<"1">>, <<"_">>, <<"x">>, <<" ", "x">>, <<"1", "x">>,
                  <<"(">>, <<"Z">>}
    IN  {h \o w \o tl : h \in heads, w \in words, tl \in tails}

LexInputs ==
    UNION {[1..n -> LexAlphabet] : n \in 0..MaxLen}
    \cup {[i \in 1..n |-> c] : n \in (MaxLen + 1)..MaxLong, c \in RepeatAlphabet}
    \cup IdentifierInputs

\* the parser of ParseSpec, not yet constructed
NoParser ==
    [tokens |-> <<>>, errors |-> <<>>, curToken |-> ZeroToken,
     peekToken |-> ZeroToken, hung |-> FALSE, callsFirst |-> FALSE]

NoProgram == [kind |-> "Program", Statements |-> <<>>]

NoError == [isNil |-> TRUE, msg |-> <<>>]

-----------------------------------------------------------------------------
(* Spec: the goroutine of Lexer.Tokens and a consumer of its channel.      *)

\* no session of the REPL is running
NoSession ==
    /\ lines = <<>>
    /\ prompts = 0
    /\ out = <<>>
    /\ env = [name \in {} |-> 0]
    /\ handled = <<>>

Init ==
    /\ input \in LexInputs
    /\ position = 0
    /\ lpc = "next"
    /\ t = ZeroToken
    /\ result = <<>>
    /\ closed = FALSE
    /\ curToken = ZeroToken
    /\ peekToken = ZeroToken
    /\ got = <<>>
    /\ p = NoParser
    /\ ppc = "idle"
    /\ program = NoProgram
    /\ err = NoError
    /\ iters = 0
    /\ NoSession

\* t := l.nextToken()
LexerNextToken ==
    /\ lpc = "next"
    /\ LET r == nextToken(input, position) IN
        /\ t' = r.tok
        /\ position' = r.position
    /\ lpc' = "send"
    /\ UNCHANGED <<input, result, closed, curToken, peekToken, got>>
    /\ UNCHANGED parseVars
    /\ UNCHANGED replVars

\* result <- t, then the test for EOF
LexerSend ==
    /\ lpc = "send"
    /\ CanSend(result)
    /\ result' = ChanSend(result, t)
    /\ lpc' = IF t.Type = Eof THEN "close" ELSE "next"
    /\ UNCHANGED <<input, position, t, closed, curToken, peekToken, got>>
    /\ UNCHANGED parseVars
    /\ UNCHANGED replVars

\* close(result); break
LexerClose ==
    /\ lpc = "close"
    /\ closed' = TRUE
    /\ lpc' = "exit"
    /\ UNCHANGED <<input, position, t, result, curToken, peekToken, got>>
    /\ UNCHANGED parseVars
    /\ UNCHANGED replVars

\* a nextToken that puts the received token in both places
ConsumerNextTokenBoth ==
    /\ Len(got) < Len(input) + MaxExtraReads
    /\ CanRecv(result, closed)
    /\ LET r == ChanRecv(result) IN
        /\ curToken' = r.tok
        /\ peekToken' = r.tok
        /\ result' = r.buf
        /\ got' = Append(got, [tok |-> r.tok, ok |-> r.ok])
    /\ UNCHANGED <<input, position, lpc, t, closed>>
    /\ UNCHANGED parseVars
    /\ UNCHANGED replVars

\* Parser.nextToken: p.curToken = p.peekToken; p.peekToken = <-p.tokens
ConsumerNextToken ==
    /\ Len(got) < Len(input) + MaxExtraReads
    /\ CanRecv(result, closed)
    /\ LET r == ChanRecv(result) IN
        /\ curToken' = peekToken
        /\ peekToken' = r.tok
        /\ result' = r.buf
        /\ got' = Append(got, [tok |-> r.tok, ok |-> r.ok])
    /\ UNCHANGED <<input, position, lpc, t, closed>>
    /\ UNCHANGED parseVars
    /\ UNCHANGED replVars

Next == LexerNextToken \/ LexerSend \/ LexerClose \/ ConsumerNextToken

Spec == Init /\ [][Next]_vars

\* the Go scheduler runs every goroutine that can take a step
FairSpec ==
    /\ Spec
    /\ WF_vars(LexerNextToken) /\ WF_vars(LexerSend) /\ WF_vars(LexerClose)
    /\ WF_vars(ConsumerNextToken)

-----------------------------------------------------------------------------
(* Claims about the lexer and its channel.                                 *)

\* the tokens the consumer received from the channel while it was open
Received ==
    LET sent == SelectSeq(got, LAMBDA g : g.ok) IN
    [i \in 1..Len(sent) |-> sent[i].tok]

\* every token put on the channel so far, in the order of the sends
Delivered == Received \o result

C2_Inv ==
    LET s == Delivered IN
    /\ Len(s) <= Len(input) + 1
    /\ \A i \in 1..Len(s) :
          s[i].Type = Eof => i = Len(s) /\ s[i].Literal = <<>>
    /\ closed => s # <<>> /\ s[Len(s)].Type = Eof

\* C2: for every input the sequence of tokens delivered on the channel of
\* Tokens() is finite (at most one token per input byte, and the channel is
\* closed in the end), its last token is EOF with an empty literal, and no
\* earlier token is EOF.
C2_TokensEndWithOneEof == []C2_Inv /\ <>closed

C2_Witness ==
    /\ closed
    /\ result = <<>>
    /\ Len(Received) >= 3
    /\ \E i \in 1..Len(input) : input[i] = "@"

\* C3: once the EOF token has been received, every further read of the
\* token stream yields a token of kind EOF.
C3_ReadsAfterEofYieldEof ==
    \A i \in 1..Len(got) : \A j \in 1..Len(got) :
        (i < j /\ got[i].tok.Type = Eof) => got[j].tok.Type = Eof

\* C4: in every interleaving of the producer and the consumer, the tokens
\* received, those buffered and the one the producer holds are, in this
\* order, a prefix of the sequence nextToken yields up to the first EOF;
\* once the producer is past its EOF the received and buffered tokens are the
\* whole of it; and a receive that finds the channel closed comes after all
\* of it was received, so nothing is lost, duplicated, reordered or delivered
\* after EOF.
C4_ChannelDeliversLex ==
    LET all == Delivered \o (IF lpc = "send" THEN <<t>> ELSE <<>>)
        L == Lex(input)
    IN  /\ Len(all) <= Len(L)
        /\ all = SubSeq(L, 1, Len(all))
        /\ lpc \in {"close", "exit"} => Delivered = L
        /\ \A i \in 1..Len(got) :
              ~got[i].ok =>
                 /\ Received = L
                 /\ \A j \in 1..Len(got) : got[j].ok <=> j <= Len(L)

C4_Witness ==
    /\ Len(Received) > ChanCap
    /\ got # <<>>
    /\ ~got[Len(got)].ok

\* C5: with the cursor at `=` followed by `=` (at `!` followed by `=`) the
\* lexer yields one `==` (`!=`) token whose literal is the two bytes and
\* moves past both, wherever in the input they stand; a `=` or `!` that no
\* `=` follows yields an assign or a bang token.
C5_TwoCharOperators ==
    lpc = "next" =>
        LET q == skipWhitespace(input, position)
            ch == peekChar(input, q)
            nx == peekChar(input, q + 1)
            r == nextToken(input, position)
        IN  /\ (ch = "=" /\ nx = "=") =>
                  r = [tok |-> newToken(OperatorEqual, <<"=", "=">>),
                       position |-> q + 2]
            /\ (ch = "!" /\ nx = "=") =>
                  r = [tok |-> newToken(OperatorNotEqual, <<"!", "=">>),
                       position |-> q + 2]
            /\ (ch = "=" /\ nx # "=") =>
                  r = [tok |-> newToken(OperatorAssign, <<"=">>),
                       position |-> q + 1]
            /\ (ch = "!" /\ nx # "=") =>
                  r = [tok |-> newToken(OperatorBang, <<"!">>),
                       position |-> q + 1]

\* the bytes that start a token of another kind than ILLEGAL
KnownBytes ==
    Whitespace \cup Letters \cup Digits \cup SingleCharTokens \cup {"\"", "=", "!"}

\* C6: for every byte of the input that starts no other kind of token, the
\* zero byte included, nextToken returns an ILLEGAL token whose literal is
\* that byte and moves the cursor by one, and lexing goes on with the rest.
C6_IllegalByte ==
    lpc = "next" =>
        LET q == skipWhitespace(input, position)
            r == nextToken(input, position)
        IN  (q < Len(input) /\ input[q + 1] \notin KnownBytes) =>
                /\ r = [tok |-> newToken(Illegal, <<input[q + 1]>>),
                        position |-> q + 1]
                /\ LexFrom(input, position) = <<r.tok>> \o LexFrom(input, q + 1)

-----------------------------------------------------------------------------
(* AST nodes (pkg/ast/ast.go) are records with a `kind`; Nil is the nil    *)
(* interface value.  String() yields bytes; a call through a nil           *)
(* interface or pointer panics, which shows as the symbol PANIC.           *)

Nil == [kind |-> "nil"]

\* n == nil for an interface value n
IsNil(n) == n.kind = "nil"

\* a nil *ast.LetStatement held in an ast.Statement: not equal to nil
NilLetStatement == [kind |-> "LetStatement", nilPointer |-> TRUE]

PANIC == "PANIC"

RECURSIVE JoinBytes(_, _)
\* strings.Join
JoinBytes(elems, sep) ==
    IF elems = <<>> THEN <<>>
    ELSE IF Len(elems) = 1 THEN elems[1]
    ELSE elems[1] \o sep \o JoinBytes(Tail(elems), sep)

\* InfixExpression.String with the parentheses left out
InfixStringBare(left, operator, right) ==
    left \o <<" ">> \o operator \o <<" ">> \o right

InfixString(left, operator, right) ==
    <<"(">> \o left \o <<" ">> \o operator \o <<" ">> \o right \o <<")">>

PrefixString(operator, right) == <<"(">> \o operator \o right \o <<")">>

IndexString(left, index) == <<"(">> \o left \o <<"[">> \o index \o <<"]", ")">>

CallString(function, args) ==
    function \o <<"(">> \o JoinBytes(args, <<",", " ">>) \o <<")">>

ArrayString(elements) ==
    <<"[">> \o JoinBytes(elements, <<",", " ">>) \o <<"]">>

FunctionString(literal, params, body) ==
    literal \o <<"(">> \o JoinBytes(params, <<",", " ">>) \o <<")", " ">> \o body

IfString(condition, consequence, hasAlternative, alternative) ==
    <<"i", "f">> \o condition \o <<" ">> \o consequence
        \o (IF hasAlternative THEN <<"e", "l", "s", "e", " ">> \o alternative
            ELSE <<>>)

LetString(literal, name, hasValue, value) ==
    literal \o <<" ">> \o name \o <<" ", "=", " ">>
        \o (IF hasValue THEN value ELSE <<>>) \o <<";">>

ReturnString(literal, hasValue, value) ==
    literal \o <<" ">> \o (IF hasValue THEN value ELSE <<>>) \o <<";">>

RECURSIVE NodeString(_)
\* the String methods of the nodes
NodeString(n) ==
    LET Strings(ns) == [i \in 1..Len(ns) |-> NodeString(ns[i])]
        Concat(ns) == JoinBytes(Strings(ns), <<>>)
    IN  CASE n.kind = "nil" -> <<PANIC>>
          [] n.kind = "Program" -> Concat(n.Statements)
          [] n.kind = "Identifier" -> n.Value
          [] n.kind \in {"IntegerLiteral", "StringLiteral", "BooleanLiteral"} ->
               n.Token.Literal
          [] n.kind = "PrefixExpression" ->
               PrefixString(n.Operator, NodeString(n.Right))
          [] n.kind = "InfixExpression" ->
               InfixString(NodeString(n.Left), n.Operator, NodeString(n.Right))
          [] n.kind = "IfExpression" ->
               IfString(NodeString(n.Condition), NodeString(n.Consequence),
                        ~IsNil(n.Alternative),
                        IF ~IsNil(n.Alternative) THEN NodeString(n.Alternative)
                        ELSE <<>>)
          [] n.kind = "FunctionLiteral" ->
               FunctionString(n.Token.Literal, Strings(n.Parameters),
                              NodeString(n.Body))
          [] n.kind = "ArrayLiteral" -> ArrayString(Strings(n.Elements))
          [] n.kind = "IndexExpression" ->
               IndexString(NodeString(n.Left), NodeString(n.Index))
          [] n.kind = "CallExpression" ->
               CallString(NodeString(n.Function), Strings(n.Arguments))
          [] n.kind = "ExpressionStatement" ->
               IF ~IsNil(n.Expression) THEN NodeString(n.Expression) ELSE <<>>
          [] n.kind = "LetStatement" ->
               IF n.nilPointer THEN <<PANIC>>
               ELSE LetString(n.Token.Literal, NodeString(n.Name), ~IsNil(n.Value),
                              IF ~IsNil(n.Value) THEN NodeString(n.Value) ELSE <<>>)
          [] n.kind = "ReturnStatement" ->
               ReturnString(n.Token.Literal, ~IsNil(n.ReturnValue),
                            IF ~IsNil(n.ReturnValue) THEN NodeString(n.ReturnValue)
                            ELSE <<>>)
          [] n.kind = "BlockStatement" -> Concat(n.Statements)
          [] OTHER -> <<PANIC>>

-----------------------------------------------------------------------------
(* The parser (package parser).  The Parser struct is a record             *)
(*   [tokens, errors, curToken, peekToken, hung, callsFirst]               *)
(* passed to every parse function, which returns it with the node built.   *)
(* tokens is what the channel p.tokens still delivers before it is closed; *)
(* hung says that a loop with no exit was entered; callsFirst is the       *)
(* build's order of evaluation in a composite literal that both reads      *)
(* p.curToken and calls a parse function (Go leaves it open).              *)

LOWEST == 1
EQUALS == 2
LESSGREATER == 3
SUM == 4
PRODUCT == 5
PREFIX == 6
CALL == 7
INDEX == 8

\* the table with the precedences of the sums and of the products exchanged
precedencesSwapped ==
    (OperatorEqual :> EQUALS) @@ (OperatorNotEqual :> EQUALS)
    @@ (OperatorLowerThan :> LESSGREATER) @@ (OperatorGreaterThan :> LESSGREATER)
    @@ (OperatorPlus :> PRODUCT) @@ (OperatorMinus :> PRODUCT)
    @@ (OperatorSlash :> SUM) @@ (OperatorAsterisk :> SUM)
    @@ (DelimiterLeftParenthesis :> CALL) @@ (DelimiterLeftBracket :> INDEX)

precedences ==
    (OperatorEqual :> EQUALS) @@ (OperatorNotEqual :> EQUALS)
    @@ (OperatorLowerThan :> LESSGREATER) @@ (OperatorGreaterThan :> LESSGREATER)
    @@ (OperatorPlus :> SUM) @@ (OperatorMinus :> SUM)
    @@ (OperatorSlash :> PRODUCT) @@ (OperatorAsterisk :> PRODUCT)
    @@ (DelimiterLeftParenthesis :> CALL) @@ (DelimiterLeftBracket :> INDEX)

prefixParseFns ==
    (Ident :> "parseIdentifier") @@ (TypeInteger :> "parseIntegerLiteral")
    @@ (OperatorBang :> "parsePrefixExpression")
    @@ (OperatorMinus :> "parsePrefixExpression")
    @@ (KeywordTrue :> "parseBooleanLiteral")
    @@ (KeywordFalse :> "parseBooleanLiteral")
    @@ (DelimiterLeftParenthesis :> "parseGroupedExpression")
    @@ (KeywordIf :> "parseIfExpression")
    @@ (KeywordFunction :> "parseFunctionLiteral")
    @@ (TypeString :> "parseStringLiteral")
    @@ (DelimiterLeftBracket :> "parseArrayLiteral")
    @@ (DelimiterLeftBrace :> "parseHashLiteral")

infixParseFns ==
    (OperatorPlus :> "parseInfixExpression")
    @@ (OperatorMinus :> "parseInfixExpression")
    @@ (OperatorSlash :> "parseInfixExpression")
    @@ (OperatorAsterisk :> "parseInfixExpression")
    @@ (OperatorEqual :> "parseInfixExpression")
    @@ (OperatorNotEqual :> "parseInfixExpression")
    @@ (OperatorLowerThan :> "parseInfixExpression")
    @@ (OperatorGreaterThan :> "parseInfixExpression")
    @@ (DelimiterLeftParenthesis :> "parseCallExpression")
    @@ (DelimiterLeftBracket :> "parseIndexExpression")

\* Parser.nextToken; a receive from the drained channel finds it closed
parserNextToken(ps) ==
    LET r == ChanRecv(ps.tokens) IN
    [ps EXCEPT !.curToken = ps.peekToken, !.peekToken = r.tok, !.tokens = r.buf]

curTokenIs(ps, tt) == ps.curToken.Type = tt

peekTokenIs(ps, tt) == ps.peekToken.Type = tt

peekPrecedence(ps) ==
    IF ps.peekToken.Type \in DOMAIN precedences
    THEN precedences[ps.peekToken.Type] ELSE LOWEST

curPrecedence(ps) ==
    IF ps.curToken.Type \in DOMAIN precedences
    THEN precedences[ps.curToken.Type] ELSE LOWEST

\* a message is the sequence of the pieces that fmt.Sprintf puts together
peekError(ps, tt) ==
    [ps EXCEPT !.errors = Append(@,
        <<"expected next token to be ", tt, ", got ", ps.peekToken.Type,
          " instead">>)]

noPrefixParseFnError(ps, tt) ==
    [ps EXCEPT !.errors = Append(@,
        <<"no prefix parse function for ", tt, " found">>)]

\* an expectPeek that moves on also when the peek token is another
expectPeekSkipping(ps, tt) ==
    IF peekTokenIs(ps, tt)
    THEN [ps |-> parserNextToken(ps), ok |-> TRUE]
    ELSE [ps |-> peekError(parserNextToken(ps), tt), ok |-> FALSE]

expectPeek(ps, tt) ==
    IF peekTokenIs(ps, tt)
    THEN [ps |-> parserNextToken(ps), ok |-> TRUE]
    ELSE [ps |-> peekError(ps, tt), ok |-> FALSE]

-----------------------------------------------------------------------------
(* strconv.ParseInt(literal, 0, 64) on a run of decimal digits: a leading  *)
(* 0 makes the rest octal.  An int64 is written as its decimal numeral     *)
(* without leading zeros, so that every value of the 64 bits has one.      *)

DigitValue ==
    ("0" :> 0) @@ ("1" :> 1) @@ ("2" :> 2) @@ ("3" :> 3) @@ ("4" :> 4)
    @@ ("5" :> 5) @@ ("6" :> 6) @@ ("7" :> 7) @@ ("8" :> 8) @@ ("9" :> 9)

DigitChar == <<"0", "1", "2", "3", "4", "5", "6", "7", "8", "9">>

RECURSIVE StripZeros(_)
StripZeros(digits) ==
    IF digits # <<>> /\ digits[1] = "0" THEN StripZeros(Tail(digits)) ELSE digits

\* the numeral of the value of a run of decimal digits
Numeral(digits) ==
    IF StripZeros(digits) = <<>> THEN <<"0">> ELSE StripZeros(digits)

RECURSIVE MulAdd(_, _, _)
\* n = n*base + d of the conversion loop, on the decimal numeral of n
MulAdd(numeral, base, d) ==
    IF numeral = <<>>
    THEN IF d = 0 THEN <<>> ELSE <<DigitChar[d + 1]>>
    ELSE LET v == DigitValue[numeral[Len(numeral)]] * base + d IN
         MulAdd(SubSeq(numeral, 1, Len(numeral) - 1), base, v \div 10)
             \o <<DigitChar[(v % 10) + 1]>>

RECURSIVE NumeralValue(_, _, _)
\* the loop of the conversion: the value of the digits in the base, after acc
NumeralValue(digits, base, acc) ==
    IF digits = <<>> THEN Numeral(acc)
    ELSE NumeralValue(Tail(digits), base,
                      MulAdd(acc, base, DigitValue[digits[1]]))

\* 1<<63 - 1 in base 10 and in base 8
MaxInt64Numeral(base) ==
    IF base = 10
    THEN <<"9","2","2","3","3","7","2","0","3","6","8","5","4","7","7","5","8",
           "0","7">>
    ELSE [i \in 1..21 |-> "7"]

RECURSIVE NumeralLeq(_, _)
\* a <= b for numerals of equal length
NumeralLeq(a, b) ==
    IF a = <<>> THEN TRUE
    ELSE IF DigitValue[a[1]] # DigitValue[b[1]]
    THEN DigitValue[a[1]] < DigitValue[b[1]]
    ELSE NumeralLeq(Tail(a), Tail(b))

FitsInt64(digits, base) ==
    LET d == StripZeros(digits)
        m == MaxInt64Numeral(base)
    IN  Len(d) < Len(m) \/ (Len(d) = Len(m) /\ NumeralLeq(d, m))

ParseInt(literal) ==
    LET base == IF literal[1] = "0" THEN 8 ELSE 10
        digits == IF literal[1] = "0" THEN Tail(literal) ELSE literal
        syntaxOk == \A i \in 1..Len(digits) : DigitValue[digits[i]] < base
        ok == syntaxOk /\ FitsInt64(digits, base)
    IN  [ok |-> ok,
         value |-> IF ok THEN NumeralValue(digits, base, <<>>) ELSE <<"0">>]

-----------------------------------------------------------------------------
(* The parse functions.  Each returns [ps, node].                          *)

RECURSIVE parseExpression(_, _), infixLoop(_, _, _), parsePrefixExpression(_),
          parseGroupedExpression(_), parseIfExpression(_),
          parseFunctionLiteral(_), parseArrayLiteral(_), parseHashLiteral(_),
          hashLoop(_, _, _), parseInfixExpression(_, _),
          parseCallExpression(_, _), parseIndexExpression(_, _),
          parseExpressionList(_, _), expressionListLoop(_, _),
          parseBlockStatement(_), blockLoop(_, _), parseStatement(_),
          parseLetStatement(_), parseReturnStatement(_),
          parseExpressionStatement(_)

\* A parse function that calls another is written as the call handed to an
\* operator for what follows it: r is what the called function has returned.

parseIdentifier(ps) ==
    [ps |-> ps,
     node |-> [kind |-> "Identifier", Token |-> ps.curToken,
               Value |-> ps.curToken.Literal]]

parseBooleanLiteral(ps) ==
    [ps |-> ps,
     node |-> [kind |-> "BooleanLiteral", Token |-> ps.curToken,
               Value |-> curTokenIs(ps, KeywordTrue)]]

parseStringLiteral(ps) ==
    [ps |-> ps,
     node |-> [kind |-> "StringLiteral", Token |-> ps.curToken,
               Value |-> ps.curToken.Literal]]

parseIntegerLiteral(ps) ==
    LET r == ParseInt(ps.curToken.Literal) IN
    IF ~r.ok
    THEN [ps |-> [ps EXCEPT !.errors = Append(@,
                     <<"could not parse \"">> \o ps.curToken.Literal
                        \o <<"\" as integer">>)],
          node |-> Nil]
    ELSE [ps |-> ps,
          node |-> [kind |-> "IntegerLiteral", Token |-> ps.curToken,
                    Value |-> r.value]]

\* expression.Right = p.parseExpression(...); return expression
prefixExpression(tok, r) ==
    [ps |-> r.ps,
     node |-> [kind |-> "PrefixExpression", Token |-> tok,
               Operator |-> tok.Literal, Right |-> r.node]]

\* parsePrefixExpression with the operand parsed at LOWEST
parsePrefixExpressionLowest(ps) ==
    prefixExpression(ps.curToken, parseExpression(parserNextToken(ps), LOWEST))

parsePrefixExpression(ps) ==
    prefixExpression(ps.curToken, parseExpression(parserNextToken(ps), PREFIX))

\* parseGroupedExpression after exp := p.parseExpression(LOWEST)
groupedExpression(r) ==
    LET e == expectPeek(r.ps, DelimiterRightParenthesis) IN
    [ps |-> e.ps, node |-> IF e.ok THEN r.node ELSE Nil]

parseGroupedExpression(ps) ==
    groupedExpression(parseExpression(parserNextToken(ps), LOWEST))

\* expression.Right = p.parseExpression(precedence); return expression
infixExpression(tok, left, r) ==
    [ps |-> r.ps,
     node |-> [kind |-> "InfixExpression", Token |-> tok,
               Operator |-> tok.Literal, Left |-> left, Right |-> r.node]]

parseInfixExpression(ps, left) ==
    infixExpression(ps.curToken, left,
                    parseExpression(parserNextToken(ps), curPrecedence(ps)))

\* the expression put at the front of the list
expressionListNextFront(list, r) == expressionListLoop(r.ps, <<r.node>> \o list)

\* list = append(list, p.parseExpression(LOWEST)) and the loop after it
expressionListNext(list, r) == expressionListLoop(r.ps, Append(list, r.node))

\* the loop of parseExpressionList
expressionListLoop(ps, list) ==
    IF peekTokenIs(ps, DelimiterComma)
    THEN expressionListNext(list,
             parseExpression(parserNextToken(parserNextToken(ps)), LOWEST))
    ELSE [ps |-> ps, list |-> list]

\* the end of parseExpressionList; a nil slice is the empty list
expressionListEnd(rest, end) ==
    LET e == expectPeek(rest.ps, end) IN
    [ps |-> e.ps, list |-> IF e.ok THEN rest.list ELSE <<>>]

parseExpressionList(ps, end) ==
    IF peekTokenIs(ps, end)
    THEN [ps |-> parserNextToken(ps), list |-> <<>>]
    ELSE expressionListEnd(
             expressionListNext(<<>>,
                 parseExpression(parserNextToken(ps), LOWEST)),
             end)

\* Token: p.curToken is read before or after the call in the same literal
callExpression(ps, function, r) ==
    [ps |-> r.ps,
     node |-> [kind |-> "CallExpression",
               Token |-> IF ps.callsFirst THEN r.ps.curToken ELSE ps.curToken,
               Function |-> function, Arguments |-> r.list]]

parseCallExpression(ps, function) ==
    callExpression(ps, function,
                   parseExpressionList(ps, DelimiterRightParenthesis))

\* Token: as in a call
arrayLiteral(ps, r) ==
    [ps |-> r.ps,
     node |-> [kind |-> "ArrayLiteral",
               Token |-> IF ps.callsFirst THEN r.ps.curToken ELSE ps.curToken,
               Elements |-> r.list]]

parseArrayLiteral(ps) ==
    arrayLiteral(ps, parseExpressionList(ps, DelimiterRightBracket))

\* parseIndexExpression after exp.Index = p.parseExpression(LOWEST)
indexExpression(tok, left, r) ==
    LET e == expectPeek(r.ps, DelimiterRightBracket) IN
    [ps |-> e.ps,
     node |-> IF e.ok
              THEN [kind |-> "IndexExpression", Token |-> tok,
                    Left |-> left, Index |-> r.node]
              ELSE Nil]

parseIndexExpression(ps, left) ==
    indexExpression(ps.curToken, left,
                    parseExpression(parserNextToken(ps), LOWEST))

\* a key written like an earlier key takes the place of the earlier one
PutPairLastWins(pairs, key, value) ==
    IF \E i \in 1..Len(pairs) : pairs[i].key = key
    THEN [i \in 1..Len(pairs) |->
            IF pairs[i].key = key THEN [key |-> key, value |-> value]
            ELSE pairs[i]]
    ELSE Append(pairs, [key |-> key, value |-> value])

\* hash.Pairs[key] = value: the keys are interface values, equal only when
\* they are the same node or both nil; the pairs are kept in source order
PutPair(pairs, key, value) ==
    IF IsNil(key) /\ \E i \in 1..Len(pairs) : IsNil(pairs[i].key)
    THEN [i \in 1..Len(pairs) |->
            IF IsNil(pairs[i].key) THEN [key |-> Nil, value |-> value]
            ELSE pairs[i]]
    ELSE Append(pairs, [key |-> key, value |-> value])

\* the loop of parseHashLiteral after value := p.parseExpression(LOWEST)
hashValue(tok, pairs, key, v) ==
    LET pairs2 == PutPair(pairs, key, v.node)
        comma == expectPeek(v.ps, DelimiterComma)
    IN  IF peekTokenIs(v.ps, DelimiterRightBrace)
        THEN hashLoop(v.ps, tok, pairs2)
        ELSE IF ~comma.ok THEN [ps |-> comma.ps, node |-> Nil]
        ELSE hashLoop(comma.ps, tok, pairs2)

\* the loop of parseHashLiteral after key := p.parseExpression(LOWEST)
hashKey(tok, pairs, k) ==
    LET colon == expectPeek(k.ps, DelimiterColon) IN
    IF ~colon.ok THEN [ps |-> colon.ps, node |-> Nil]
    ELSE hashValue(tok, pairs, k.node,
                   parseExpression(parserNextToken(colon.ps), LOWEST))

\* the loop of parseHashLiteral
hashLoop(ps, tok, pairs) ==
    IF ~peekTokenIs(ps, DelimiterRightBrace)
    THEN hashKey(tok, pairs, parseExpression(parserNextToken(ps), LOWEST))
    ELSE LET e == expectPeek(ps, DelimiterRightBrace) IN
         [ps |-> e.ps,
          node |-> IF e.ok
                   THEN [kind |-> "HashLiteral", Token |-> tok, Pairs |-> pairs]
                   ELSE Nil]

parseHashLiteral(ps) == hashLoop(ps, ps.curToken, <<>>)

\* the channel is closed and drained and both tokens are its zero value:
\* from here on nextToken changes nothing
Stuck(ps) ==
    /\ ps.tokens = <<>>
    /\ ps.curToken = ZeroToken
    /\ ps.peekToken = ZeroToken

\* stmt := p.parseStatement(); if stmt != nil { append }; p.nextToken()
statementsNext(stmts, r) ==
    [ps |-> parserNextToken(r.ps),
     stmts |-> IF ~IsNil(r.node) THEN Append(stmts, r.node) ELSE stmts]

\* one turn of the loop of parseBlockStatement and the loop after it
blockNext(st) == blockLoop(st.ps, st.stmts)

\* the loop of parseBlockStatement; once the parser is Stuck its condition
\* stays true and the loop has no exit
blockLoop(ps, stmts) ==
    IF ~curTokenIs(ps, DelimiterRightBrace) /\ ~curTokenIs(ps, Eof)
    THEN IF Stuck(ps)
         THEN [ps |-> [ps EXCEPT !.hung = TRUE], stmts |-> stmts]
         ELSE blockNext(statementsNext(stmts, parseStatement(ps)))
    ELSE [ps |-> ps, stmts |-> stmts]

\* return &ast.BlockStatement{Token: p.curToken, Statements: stmts}
blockStatement(r) ==
    [ps |-> r.ps,
     node |-> [kind |-> "BlockStatement", Token |-> r.ps.curToken,
               Statements |-> r.stmts]]

parseBlockStatement(ps) == blockStatement(blockLoop(parserNextToken(ps), <<>>))

\* return &ast.IfExpression{Token: p.curToken, ...}
ifExpression(ps, condition, consequence, alternative) ==
    [ps |-> ps,
     node |-> [kind |-> "IfExpression", Token |-> ps.curToken,
               Condition |-> condition, Consequence |-> consequence,
               Alternative |-> alternative]]

\* the block after `else` parsed and left out of the node
ifAlternativeDropped(condition, consequence, alternative) ==
    ifExpression(alternative.ps, condition, consequence, Nil)

\* parseIfExpression after alternative = p.parseBlockStatement()
ifAlternative(condition, consequence, alternative) ==
    ifExpression(alternative.ps, condition, consequence, alternative.node)

\* parseIfExpression after consequence := p.parseBlockStatement()
ifConsequence(condition, consequence) ==
    LET e4 == expectPeek(parserNextToken(consequence.ps), DelimiterLeftBrace)
    IN  IF peekTokenIs(consequence.ps, KeywordElse)
        THEN IF ~e4.ok THEN [ps |-> e4.ps, node |-> Nil]
             ELSE ifAlternative(condition, consequence.node,
                                parseBlockStatement(e4.ps))
        ELSE ifExpression(consequence.ps, condition, consequence.node, Nil)

\* parseIfExpression after condition := p.parseExpression(LOWEST)
ifCondition(condition) ==
    LET e2 == expectPeek(condition.ps, DelimiterRightParenthesis)
        e3 == expectPeek(e2.ps, DelimiterLeftBrace)
    IN  IF ~e2.ok THEN [ps |-> e2.ps, node |-> Nil]
        ELSE IF ~e3.ok THEN [ps |-> e3.ps, node |-> Nil]
        ELSE ifConsequence(condition.node, parseBlockStatement(e3.ps))

parseIfExpression(ps) ==
    LET e1 == expectPeek(ps, DelimiterLeftParenthesis) IN
    IF ~e1.ok THEN [ps |-> e1.ps, node |-> Nil]
    ELSE ifCondition(parseExpression(parserNextToken(e1.ps), LOWEST))

identifierOf(tok) == [kind |-> "Identifier", Token |-> tok, Value |-> tok.Literal]

RECURSIVE functionParametersLoop(_, _)
\* the loop of parseFunctionParameters after the first parameter
functionParametersLoop(ps, identifiers) ==
    IF peekTokenIs(ps, DelimiterComma)
    THEN LET ps2 == parserNextToken(parserNextToken(ps)) IN
         functionParametersLoop(ps2, Append(identifiers, identifierOf(ps2.curToken)))
    ELSE [ps |-> ps, list |-> identifiers]

parseFunctionParameters(ps) ==
    IF peekTokenIs(ps, DelimiterRightParenthesis)
    THEN [ps |-> parserNextToken(ps), list |-> <<>>]
    ELSE LET ps1 == parserNextToken(ps)
             rest == functionParametersLoop(ps1, <<identifierOf(ps1.curToken)>>)
             e == expectPeek(rest.ps, DelimiterRightParenthesis)
         IN  [ps |-> e.ps, list |-> IF e.ok THEN rest.list ELSE <<>>]

\* lit.Body = p.parseBlockStatement(); return lit
functionLiteral(tok, parameters, body) ==
    [ps |-> body.ps,
     node |-> [kind |-> "FunctionLiteral", Token |-> tok,
               Parameters |-> parameters, Body |-> body.node]]

\* parseFunctionLiteral after lit.Parameters = p.parseFunctionParameters()
functionBody(tok, params) ==
    LET e2 == expectPeek(params.ps, DelimiterLeftBrace) IN
    IF ~e2.ok THEN [ps |-> e2.ps, node |-> Nil]
    ELSE functionLiteral(tok, params.list, parseBlockStatement(e2.ps))

parseFunctionLiteral(ps) ==
    LET e1 == expectPeek(ps, DelimiterLeftParenthesis) IN
    IF ~e1.ok THEN [ps |-> e1.ps, node |-> Nil]
    ELSE functionBody(ps.curToken, parseFunctionParameters(e1.ps))

\* prefix := p.prefixParseFns[p.curToken.Type]; prefix()
callPrefix(fn, ps) ==
    CASE fn = "parseIdentifier" -> parseIdentifier(ps)
      [] fn = "parseIntegerLiteral" -> parseIntegerLiteral(ps)
      [] fn = "parsePrefixExpression" -> parsePrefixExpression(ps)
      [] fn = "parseBooleanLiteral" -> parseBooleanLiteral(ps)
      [] fn = "parseGroupedExpression" -> parseGroupedExpression(ps)
      [] fn = "parseIfExpression" -> parseIfExpression(ps)
      [] fn = "parseFunctionLiteral" -> parseFunctionLiteral(ps)
      [] fn = "parseStringLiteral" -> parseStringLiteral(ps)
      [] fn = "parseArrayLiteral" -> parseArrayLiteral(ps)
      [] fn = "parseHashLiteral" -> parseHashLiteral(ps)

\* infix := p.infixParseFns[p.peekToken.Type]; infix(leftExp)
callInfix(fn, ps, left) ==
    CASE fn = "parseInfixExpression" -> parseInfixExpression(ps, left)
      [] fn = "parseCallExpression" -> parseCallExpression(ps, left)
      [] fn = "parseIndexExpression" -> parseIndexExpression(ps, left)

\* leftExp := prefix(), or leftExp = infix(leftExp), and the loop after it
infixNext(precedence, r) == infixLoop(r.ps, precedence, r.node)

\* the loop of parseExpression
infixLoop(ps, precedence, leftExp) ==
    IF ~peekTokenIs(ps, DelimiterSemicolon) /\ precedence < peekPrecedence(ps)
    THEN IF ps.peekToken.Type \notin DOMAIN infixParseFns
         THEN [ps |-> ps, node |-> leftExp]
         ELSE infixNext(precedence,
                        callInfix(infixParseFns[ps.peekToken.Type],
                                  parserNextToken(ps), leftExp))
    ELSE [ps |-> ps, node |-> leftExp]

parseExpression(ps, precedence) ==
    IF ps.curToken.Type \notin DOMAIN prefixParseFns
    THEN [ps |-> noPrefixParseFnError(ps, ps.curToken.Type), node |-> Nil]
    ELSE infixNext(precedence, callPrefix(prefixParseFns[ps.curToken.Type], ps))

\* a statement that leaves the `;` after it where it is
skipSemicolonNever(ps) == ps

\* if p.peekTokenIs(token.DelimiterSemicolon) { p.nextToken() }
skipSemicolon(ps) ==
    IF peekTokenIs(ps, DelimiterSemicolon) THEN parserNextToken(ps) ELSE ps

\* parseExpressionStatement after stmt.Expression = p.parseExpression(LOWEST)
expressionStatement(tok, r) ==
    [ps |-> skipSemicolon(r.ps),
     node |-> [kind |-> "ExpressionStatement", Token |-> tok,
               Expression |-> r.node]]

parseExpressionStatement(ps) ==
    expressionStatement(ps.curToken, parseExpression(ps, LOWEST))

\* parseReturnStatement after stmt.ReturnValue = p.parseExpression(LOWEST)
returnStatement(tok, r) ==
    [ps |-> skipSemicolon(r.ps),
     node |-> [kind |-> "ReturnStatement", Token |-> tok,
               ReturnValue |-> r.node]]

parseReturnStatement(ps) ==
    returnStatement(ps.curToken, parseExpression(parserNextToken(ps), LOWEST))

\* parseLetStatement after stmt.Value = p.parseExpression(LOWEST)
letStatement(tok, name, r) ==
    [ps |-> skipSemicolon(r.ps),
     node |-> [kind |-> "LetStatement", nilPointer |-> FALSE,
               Token |-> tok, Name |-> identifierOf(name), Value |-> r.node]]

\* a failed let returns a nil *ast.LetStatement
parseLetStatement(ps) ==
    LET e1 == expectPeek(ps, Ident)
        e2 == expectPeek(e1.ps, OperatorAssign)
    IN  IF ~e1.ok THEN [ps |-> e1.ps, node |-> NilLetStatement]
        ELSE IF ~e2.ok THEN [ps |-> e2.ps, node |-> NilLetStatement]
        ELSE letStatement(ps.curToken, e1.ps.curToken,
                          parseExpression(parserNextToken(e2.ps), LOWEST))

\* the result is an ast.Statement: a nil *ast.LetStatement in it is not nil
parseStatement(ps) ==
    CASE ps.curToken.Type = KeywordLet -> parseLetStatement(ps)
      [] ps.curToken.Type = KeywordReturn -> parseReturnStatement(ps)
      [] OTHER -> parseExpressionStatement(ps)

-----------------------------------------------------------------------------
(* parser.New and ParseProgram.                                            *)

\* parser.New on the channel of a lexer that delivers `tokens`
New(tokens, callsFirst) ==
    parserNextToken(parserNextToken(
        [tokens |-> tokens, errors |-> <<>>, curToken |-> ZeroToken,
         peekToken |-> ZeroToken, hung |-> FALSE, callsFirst |-> callsFirst]))

\* one turn of the loop of ParseProgram
programStep(ps, stmts) == statementsNext(stmts, parseStatement(ps))

\* programError with the messages run together
programErrorUnjoined(errors) ==
    IF Len(errors) > 0
    THEN [isNil |-> FALSE,
          msg |-> <<"error while parsing input: ">> \o JoinBytes(errors, <<>>)]
    ELSE NoError

\* the error ParseProgram returns with the program
programError(errors) ==
    IF Len(errors) > 0
    THEN [isNil |-> FALSE,
          msg |-> <<"error while parsing input: ">> \o JoinBytes(errors, <<", ">>)]
    ELSE NoError

RECURSIVE programLoop(_)
\* the loop of ParseProgram run to its end from st = [ps, stmts]; it has no
\* end once the parser is Stuck, or hung in a block
programLoop(st) ==
    IF st.ps.curToken.Type # Eof
    THEN IF Stuck(st.ps) \/ st.ps.hung
         THEN [returns |-> FALSE, ps |-> st.ps, stmts |-> st.stmts]
         ELSE programLoop(programStep(st.ps, st.stmts))
    ELSE [returns |-> TRUE, ps |-> st.ps, stmts |-> st.stmts]

\* what ParseProgram returns, if it does
programResult(r) ==
    [returns |-> r.returns,
     program |-> [kind |-> "Program", Statements |-> r.stmts],
     err |-> programError(r.ps.errors)]

\* lexer.New, parser.New and ParseProgram on a source
ParseProgram(source, callsFirst) ==
    programResult(programLoop([ps |-> New(Lex(source), callsFirst),
                               stmts |-> <<>>]))

-----------------------------------------------------------------------------
(* Inputs of the parser specification: lexemes joined by one space.        *)

Source(lexemes) == JoinBytes(lexemes, <<" ">>)

ParseLexemes ==
    {<<"a">>, <<"+">>, <<"-">>, <<"(">>, <<")">>, <<"[">>, <<"]">>, <<",">>,
     <<";">>, <<"=">>, kwLet}

TokenInputs ==
    {Source(ls) : ls \in UNION {[1..n -> ParseLexemes] : n \in 0..MaxToks}}

\* complete programs, of which every prefix is an input
Samples ==
    {<<kwLet, <<"x">>, <<"=">>, kwFn, <<"(">>, <<"a">>, <<",">>, <<"b">>, <<")">>,
       <<"{">>, kwIf, <<"(">>, <<"a">>, <<"<">>, <<"b">>, <<")">>, <<"{">>,
       kwReturn, <<"a">>, <<";">>, <<"}">>, kwElse, <<"{">>, <<"b">>, <<"}">>,
       <<"}">>, <<";">>>>,
     <<<<"{">>, <<"a">>, <<":">>, <<"[">>, <<"1">>, <<",">>, <<"2">>, <<"]">>,
       <<"[">>, <<"0">>, <<"]">>, <<",">>, <<"1">>, <<":">>, <<"f">>, <<"(">>,
       <<"a">>, <<",">>, <<"0", "8">>, <<")">>, <<"}">>>>,
     <<<<"f">>, <<"(">>, <<"x">>, <<")">>, <<"!", "=">>, <<"\"", "s", "\"">>,
       <<"=", "=">>>>}

PrefixInputs ==
    UNION {{Source(SubSeq(ls, 1, n)) : n \in 0..Len(ls)} : ls \in Samples}

Atoms == {<<"a">>, <<"1">>, kwTrue}

BinaryOperators ==
    {<<"=", "=">>, <<"!", "=">>, <<"<">>, <<">">>, <<"+">>, <<"-">>, <<"*">>,
     <<"/">>}

PrefixOperators == {<<"!">>, <<"-">>}

SomeOperators == {<<"+">>, <<"*">>, <<"=", "=">>}

RECURSIVE ExprSources(_)
\* expression sources nested d deep
ExprSources(d) ==
    IF d = 0 THEN Atoms
    ELSE LET E == ExprSources(d - 1)
             X == {<<"a">>}
         IN  E
             \cup {o \o e : o \in PrefixOperators, e \in E}
             \cup {e \o <<" ">> \o o \o <<" ">> \o x :
                     e \in E, o \in SomeOperators, x \in X}
             \cup {x \o <<" ">> \o o \o <<" ">> \o e :
                     e \in E, o \in SomeOperators, x \in X}
             \cup {<<"(">> \o e \o <<")">> : e \in E}
             \cup {e \o <<"(", ")">> : e \in E}
             \cup {e \o <<"(">> \o x \o <<")">> : e \in E, x \in X}
             \cup {<<"f", "(">> \o x \o <<",", " ">> \o e \o <<")">> :
                     e \in E, x \in X}
             \cup {e \o <<"[">> \o x \o <<"]">> : e \in E, x \in X}
             \cup {x \o <<"[">> \o e \o <<"]">> : e \in E, x \in X}
             \cup {<<"[">> \o e \o <<"]">> : e \in E}
             \cup {<<"[">> \o x \o <<",">> \o e \o <<"]">> : e \in E, x \in X}

\* a op1 b op2 c, an operand being a name or a parenthesised group
Operands == {<<"a">>, <<"(", "b", " ", "+", " ", "c", ")">>}

PrecedenceInputs ==
    {Source(<<x, o1, y, o2, z>>) :
        x \in Operands, y \in Operands, z \in Operands,
        o1 \in BinaryOperators, o2 \in BinaryOperators}

\* prefix operators before an operand, with or without a binary operator after
PrefixOpInputs ==
    LET pre == {<<o>> : o \in PrefixOperators}
               \cup {<<o1, o2>> : o1 \in PrefixOperators, o2 \in PrefixOperators}
        operand == {<<"a">>, <<"f", "(", "x", ")">>, <<"a", "[", "i", "]">>,
                    <<"(", "a", " ", "+", " ", "b", ")">>}
        post == {<<>>} \cup {<<o, <<"b">>>> : o \in BinaryOperators}
    IN  {Source(q \o <<x>> \o r) : q \in pre, x \in operand, r \in post}

Statements(E) ==
    E \cup {e \o <<";">> : e \in E}
      \cup {Source(<<kwLet, <<"x">>, <<"=">>, e>>) : e \in E}
      \cup {Source(<<kwLet, <<"x">>, <<"=">>, e>>) \o <<";">> : e \in E}
      \cup {Source(<<kwReturn, e>>) : e \in E}
      \cup {Source(<<kwReturn, e>>) \o <<";">> : e \in E}

StatementInputs ==
    Statements(ExprSources(1))
    \cup {Source(<<s1, s2>>) : s1 \in Statements(Atoms), s2 \in Statements(Atoms)}

\* integer literals: short runs of digits, and runs at the ends of the int64
\* range read in base 10 and in base 8
IntegerInputs ==
    UNION {[1..n -> {"0", "1", "7", "8"}] : n \in 1..MaxLen}
    \cup {MaxInt64Numeral(10),
          SubSeq(MaxInt64Numeral(10), 1, 18) \o <<"8">>,
          <<"0">> \o MaxInt64Numeral(8),
          <<"0", "1">> \o [i \in 1..21 |-> "0"],
          <<"0">> \o MaxInt64Numeral(10)}

\* sources with string literals, closed or not
QuoteInputs ==
    UNION {[1..n -> {"\"", "a", ";", " "}] : n \in 1..(MaxLen + 1)}

RECURSIVE Separated(_, _)
\* the lexemes with the separator lexemes between them
Separated(lexemes, sep) ==
    IF Len(lexemes) <= 1 THEN lexemes
    ELSE <<Head(lexemes)>> \o sep \o Separated(Tail(lexemes), sep)

\* what is written at the places of the parameters of a function literal
ParameterLexemes == {<<"x">>, <<"y">>, <<"1">>, <<"(">>}

ParameterLists == UNION {[1..n -> ParameterLexemes] : n \in 0..MaxLen}

\* fn ( p1 , ... , pn ) { x }
FunctionSource(params, sep, tail) ==
    Source(<<kwFn, <<"(">> >> \o Separated(params, sep) \o tail)

FunctionTail == << <<")">>, <<"{">>, <<"x">>, <<"}">> >>

\* function literals, of which some lack the commas, the `)` or the body
FunctionInputs ==
    {FunctionSource(ps, sep, tl) :
        ps \in ParameterLists,
        sep \in {<< <<",">> >>, <<>>},
        tl \in {FunctionTail, Tail(FunctionTail), <<Head(FunctionTail)>>}}

\* the expressions written as arguments and as elements
ElementLexemes ==
    {<< <<"a">> >>, << <<"a">>, <<"+">>, <<"1">> >>,
     << <<"-">>, <<"a">>, <<"*">>, <<"1">> >>,
     << <<"g">>, <<"(">>, <<"a">>, <<")">> >>}

ElementLists == UNION {[1..n -> ElementLexemes] : n \in 0..MaxLen}

RECURSIVE Flatten(_)
Flatten(seqs) == IF seqs = <<>> THEN <<>> ELSE Head(seqs) \o Flatten(Tail(seqs))

\* f ( e1 , ... , en ) and [ e1 , ... , en ], with what closes the list
ListSource(opening, elements, closing) ==
    Source(opening
           \o Flatten([i \in 1..Len(elements) |->
                          IF i = 1 THEN elements[i]
                          ELSE << <<",">> >> \o elements[i]])
           \o closing)

CallOpening == << <<"f">>, <<"(">> >>

ArrayOpening == << <<"[">> >>

\* calls and array literals, closed, cut after the last expression, and cut
\* with a `;` after it
ListInputs ==
    {ListSource(CallOpening, es, cl) :
        es \in ElementLists, cl \in {<< <<")">> >>, <<>>, << <<";">> >>}}
    \cup {ListSource(ArrayOpening, es, cl) :
        es \in ElementLists, cl \in {<< <<"]">> >>, <<>>, << <<";">> >>}}

\* the keys and the values written in hash literals
KeyLexemes == {<< <<"a">> >>, << <<"\"", "s", "\"">> >>}

ValueLexemes == {<< <<"1">> >>, << <<"a">>, <<"+">>, <<"1">> >>}

PairLists ==
    UNION {[1..n -> [key : KeyLexemes, value : ValueLexemes]] : n \in 0..MaxLen}

\* { k1 : v1 , ... , kn : vn } with what closes it
HashSource(pairs, closing) ==
    Source(<< <<"{">> >>
           \o Flatten([i \in 1..Len(pairs) |->
                          (IF i = 1 THEN <<>> ELSE << <<",">> >>)
                          \o pairs[i].key \o << <<":">> >> \o pairs[i].value])
           \o closing)

HashClosing == << <<"}">> >>

\* hash literals, closed, closed after one more comma, and not closed
HashInputs ==
    {HashSource(prs, cl) :
        prs \in PairLists, cl \in {HashClosing, << <<",">>, <<"}">> >>, <<>>}}

\* the statements written in the blocks of if expressions
BlockStatements ==
    {<< <<"a">> >>, << <<"1">>, <<";">> >>,
     << kwLet, <<"x">>, <<"=">>, <<"1">>, <<";">> >>,
     << kwReturn, <<"a">>, <<";">> >>}

\* blocks of no, one and two statements
BlockLists ==
    {<<>>} \cup {<<s>> : s \in BlockStatements}
    \cup {<<s, u>> : s \in BlockStatements, u \in BlockStatements}

IfConditions == {<< <<"a">> >>, << <<"a">>, <<"<">>, <<"1">> >>}

\* what follows the closing brace of the consequence when it is not `else`
IfTails == {<<>>, << <<";">> >>, << <<"x">> >>}

\* if ( c ) { A } and what follows
IfSource(c, A, tail) ==
    Source(<<kwIf, <<"(">> >> \o c \o << <<")">>, <<"{">> >> \o Flatten(A)
           \o << <<"}">> >> \o tail)

\* else { B }
ElseTail(B) == <<kwElse, <<"{">> >> \o Flatten(B) \o << <<"}">> >>

IfInputs ==
    {IfSource(c, A, tl) : c \in IfConditions, A \in BlockLists, tl \in IfTails}
    \cup {IfSource(c, A, ElseTail(B)) :
             c \in IfConditions, A \in BlockLists, B \in BlockLists}
    \cup {IfSource(c, A, <<kwElse>> \o tl) :
             c \in IfConditions, A \in BlockLists, tl \in IfTails}

\* the lexemes of `if ( a ) { body }`
IfLexemes(body) ==
    <<kwIf, <<"(">>, <<"a">>, <<")">>, <<"{">> >> \o body \o << <<"}">> >>

\* what stands in an outer block before and after an inner if
NestedBefore == {<<>>, << <<"c">>, <<";">> >>}

NestedInner == {<<>>, << <<"b">> >>}

NestedAfter == {<<>>, << <<"d">> >>}

\* if ( a ) { before if ( a ) { inner } after } and what follows
NestedSource(before, inner, after, tail) ==
    Source(IfLexemes(before \o IfLexemes(inner) \o after) \o tail)

NestedInputs ==
    {NestedSource(b, i, a, tl) :
        b \in NestedBefore, i \in NestedInner, a \in NestedAfter,
        tl \in IfTails}

\* blocks that the input ends in
UnclosedBodies ==
    {<<>>, << <<"a">> >>, << <<"a">>, <<";">> >>, << <<"1">>, <<"+">> >>,
     <<kwLet, <<"x">>, <<"=">> >>}

UnclosedInputs ==
    {Source(<<kwIf, <<"(">>, <<"a">>, <<")">>, <<"{">> >> \o body) :
        body \in UnclosedBodies}

ParseInputs ==
    NestedInputs \cup UnclosedInputs \cup TokenInputs \cup PrefixInputs \cup ExprSources(MaxDepth)
    \cup PrecedenceInputs \cup PrefixOpInputs \cup StatementInputs
    \cup IntegerInputs \cup QuoteInputs \cup FunctionInputs \cup ListInputs
    \cup HashInputs \cup IfInputs

-----------------------------------------------------------------------------
(* ParseSpec: lexer.New, parser.New and ParseProgram as the REPL calls     *)
(* them.  The channel is taken with all that the goroutine sends on it.    *)

ParseInit ==
    /\ input \in ParseInputs
    /\ position = 0
    /\ lpc = "next"
    /\ t = ZeroToken
    /\ result = <<>>
    /\ closed = FALSE
    /\ curToken = ZeroToken
    /\ peekToken = ZeroToken
    /\ got = <<>>
    /\ p = NoParser
    /\ ppc = "start"
    /\ program = NoProgram
    /\ err = NoError
    /\ iters = 0
    /\ NoSession

\* p := parser.New(l)
ParserNew ==
    /\ ppc = "start"
    /\ \E callsFirst \in BOOLEAN : p' = New(Lex(input), callsFirst)
    /\ ppc' = "loop"
    /\ UNCHANGED <<input, program, err, iters>>
    /\ UNCHANGED lexVars
    /\ UNCHANGED replVars

\* what a turn of the loop of ParseProgram leaves; a parseStatement that does
\* not return leaves the caller in it
ParseProgramTurn(r) ==
    IF r.ps.hung
    THEN /\ ppc' = "hung"
         /\ UNCHANGED <<p, program>>
    ELSE /\ p' = r.ps
         /\ program' = [program EXCEPT !.Statements = r.stmts]
         /\ ppc' = "loop"

\* one turn of the loop of ParseProgram
ParseProgramLoop ==
    /\ ppc = "loop"
    /\ p.curToken.Type # Eof
    /\ iters < Len(input) + MaxExtraIters
    /\ ParseProgramTurn(programStep(p, program.Statements))
    /\ iters' = iters + 1
    /\ UNCHANGED <<input, err>>
    /\ UNCHANGED lexVars
    /\ UNCHANGED replVars

\* the end of ParseProgram
ParseProgramReturn ==
    /\ ppc = "loop"
    /\ p.curToken.Type = Eof
    /\ err' = programError(p.errors)
    /\ ppc' = "done"
    /\ UNCHANGED <<input, p, program, iters>>
    /\ UNCHANGED lexVars
    /\ UNCHANGED replVars

ParseNext == ParserNew \/ ParseProgramLoop \/ ParseProgramReturn

ParseSpec == ParseInit /\ [][ParseNext]_vars

-----------------------------------------------------------------------------
(* The values of package object and the evaluator.  Integer, Boolean and   *)
(* Null are the types of object.go; the evaluator, the environment and the *)
(* ReturnValue and Error values follow the language description, for the   *)
(* node kinds below: statements, integer and boolean literals,             *)
(* identifiers, prefix and infix expressions and if expressions.           *)

typeInteger == "INTEGER"

typeBoolean == "BOOLEAN"

typeNull == "NULL"

Integer(value) == [kind |-> "Integer", Value |-> value]

Boolean(value) == [kind |-> "Boolean", Value |-> value]

Null == [kind |-> "Null"]

ReturnValue(value) == [kind |-> "ReturnValue", Value |-> value]

Error(message) == [kind |-> "Error", Message |-> message]

\* obj.Type()
Type(obj) ==
    CASE obj.kind = "Integer" -> typeInteger
      [] obj.kind = "Boolean" -> typeBoolean
      [] obj.kind = "Null" -> typeNull

RECURSIVE FormatNat(_)
\* the decimal digits of a natural number
FormatNat(n) ==
    IF n < 10 THEN <<DigitChar[n + 1]>>
    ELSE FormatNat(n \div 10) \o <<DigitChar[(n % 10) + 1]>>

\* fmt.Sprintf("%d", i.Value)
FormatInt(n) == IF n < 0 THEN <<"-">> \o FormatNat(0 - n) ELSE FormatNat(n)

\* the inspect form of an Error value
InspectError(obj) == <<"ERROR: ">> \o obj.Message

\* obj.Inspect()
Inspect(obj) ==
    CASE obj.kind = "Integer" -> FormatInt(obj.Value)
      [] obj.kind = "Boolean" -> IF obj.Value THEN <<"true">> ELSE <<"false">>
      [] obj.kind = "Null" -> <<"null">>
      [] obj.kind = "Error" -> InspectError(obj)

\* object.NewEnvironment(): no name is bound
NewEnvironment == [name \in {} |-> Null]

\* env.Get(name)
EnvGet(e, name) ==
    IF name \in DOMAIN e THEN [obj |-> e[name], ok |-> TRUE]
    ELSE [obj |-> Nil, ok |-> FALSE]

\* env.Set(name, value)
EnvSet(e, name, value) ==
    [n \in DOMAIN e \cup {name} |-> IF n = name THEN value ELSE e[n]]

RECURSIVE IntOf(_, _)
\* the integer of a decimal numeral, after acc
IntOf(numeral, acc) ==
    IF numeral = <<>> THEN acc
    ELSE IntOf(Tail(numeral), acc * 10 + DigitValue[numeral[1]])

isError(obj) == obj.kind = "Error"

\* truthiness: non-false, non-null
isTruthy(obj) == obj # Null /\ obj # Boolean(FALSE)

\* the quotient truncated toward zero
Quotient(a, b) ==
    IF (a < 0) = (b < 0)
    THEN (IF a < 0 THEN 0 - a ELSE a) \div (IF b < 0 THEN 0 - b ELSE b)
    ELSE 0 - ((IF a < 0 THEN 0 - a ELSE a) \div (IF b < 0 THEN 0 - b ELSE b))

evalBangOperatorExpression(right) == Boolean(~isTruthy(right))

evalMinusPrefixOperatorExpression(right) ==
    IF right.kind # "Integer"
    THEN Error(<<"unknown operator: -", Type(right)>>)
    ELSE Integer(0 - right.Value)

evalPrefixExpression(operator, right) ==
    CASE operator = <<"!">> -> evalBangOperatorExpression(right)
      [] operator = <<"-">> -> evalMinusPrefixOperatorExpression(right)

evalIntegerInfixExpression(operator, left, right) ==
    CASE operator = <<"+">> -> Integer(left.Value + right.Value)
      [] operator = <<"-">> -> Integer(left.Value - right.Value)
      [] operator = <<"*">> -> Integer(left.Value * right.Value)
      [] operator = <<"/">> /\ right.Value # 0 ->
            Integer(Quotient(left.Value, right.Value))
      [] operator = <<"<">> -> Boolean(left.Value < right.Value)
      [] operator = <<">">> -> Boolean(left.Value > right.Value)
      [] operator = <<"=", "=">> -> Boolean(left.Value = right.Value)
      [] operator = <<"!", "=">> -> Boolean(left.Value # right.Value)

evalInfixExpression(operator, left, right) ==
    IF left.kind = "Integer" /\ right.kind = "Integer"
    THEN evalIntegerInfixExpression(operator, left, right)
    ELSE IF Type(left) # Type(right)
    THEN Error(<<"type mismatch: ", Type(left), " ">> \o operator
                  \o <<" ", Type(right)>>)
    ELSE IF operator = <<"=", "=">> THEN Boolean(left = right)
    ELSE IF operator = <<"!", "=">> THEN Boolean(left # right)
    ELSE Error(<<"unknown operator: ", Type(left), " ">> \o operator
                  \o <<" ", Type(right)>>)

evalIdentifier(name, e) ==
    IF EnvGet(e, name).ok THEN EnvGet(e, name).obj
    ELSE Error(<<"identifier not found: ">> \o name)

\* Each of the following returns [value, env]: the value of the node and
\* the environment after it.

RECURSIVE Eval(_, _), evalProgram(_, _, _), evalBlockStatement(_, _, _)

\* a program after one of its statements: a ReturnValue is unwrapped
programAfter(rest, r) ==
    IF r.value.kind = "ReturnValue" THEN [value |-> r.value.Value, env |-> r.env]
    ELSE IF isError(r.value) THEN r
    ELSE evalProgram(rest, r.env, r.value)

evalProgram(stmts, e, last) ==
    IF stmts = <<>> THEN [value |-> last, env |-> e]
    ELSE programAfter(Tail(stmts), Eval(Head(stmts), e))

\* a block that hands a ReturnValue on unwrapped
blockAfterUnwrapping(rest, r) ==
    IF r.value.kind = "ReturnValue" THEN [value |-> r.value.Value, env |-> r.env]
    ELSE IF isError(r.value) THEN r
    ELSE evalBlockStatement(rest, r.env, r.value)

\* a block after one of its statements: a ReturnValue stays wrapped
blockAfter(rest, r) ==
    IF r.value.kind = "ReturnValue" \/ isError(r.value) THEN r
    ELSE evalBlockStatement(rest, r.env, r.value)

evalBlockStatement(stmts, e, last) ==
    IF stmts = <<>> THEN [value |-> last, env |-> e]
    ELSE blockAfter(Tail(stmts), Eval(Head(stmts), e))

\* a let after its value: the name is bound in the environment
evalLetStatement(name, r) ==
    IF isError(r.value) THEN r
    ELSE [value |-> Null, env |-> EnvSet(r.env, name, r.value)]

evalReturnStatement(r) ==
    IF isError(r.value) THEN r
    ELSE [value |-> ReturnValue(r.value), env |-> r.env]

prefixAfter(operator, r) ==
    IF isError(r.value) THEN r
    ELSE [value |-> evalPrefixExpression(operator, r.value), env |-> r.env]

infixAfterRight(operator, left, r) ==
    IF isError(r.value) THEN r
    ELSE [value |-> evalInfixExpression(operator, left, r.value),
          env |-> r.env]

infixAfterLeft(operator, right, r) ==
    IF isError(r.value) THEN r
    ELSE infixAfterRight(operator, r.value, Eval(right, r.env))

evalIfExpression(node, r) ==
    IF isError(r.value) THEN r
    ELSE IF isTruthy(r.value)
    THEN Eval(node.Consequence, r.env)
    ELSE IF ~IsNil(node.Alternative) THEN Eval(node.Alternative, r.env)
    ELSE [value |-> Null, env |-> r.env]

Eval(node, e) ==
    CASE node.kind = "Program" -> evalProgram(node.Statements, e, Nil)
      [] node.kind = "BlockStatement" ->
            evalBlockStatement(node.Statements, e, Nil)
      [] node.kind = "ExpressionStatement" -> Eval(node.Expression, e)
      [] node.kind = "LetStatement" ->
            evalLetStatement(node.Name.Value, Eval(node.Value, e))
      [] node.kind = "ReturnStatement" ->
            evalReturnStatement(Eval(node.ReturnValue, e))
      [] node.kind = "IntegerLiteral" ->
            [value |-> Integer(IntOf(node.Value, 0)), env |-> e]
      [] node.kind = "BooleanLiteral" ->
            [value |-> Boolean(node.Value), env |-> e]
      [] node.kind = "Identifier" ->
            [value |-> evalIdentifier(node.Value, e), env |-> e]
      [] node.kind = "PrefixExpression" ->
            prefixAfter(node.Operator, Eval(node.Right, e))
      [] node.kind = "InfixExpression" ->
            infixAfterLeft(node.Operator, node.Right, Eval(node.Left, e))
      [] node.kind = "IfExpression" ->
            evalIfExpression(node, Eval(node.Condition, e))

\* what Eval(program, env) hands to the REPL: the value of a program, and
\* for a program without statements nil or Null
Evaluated(prog, e) ==
    IF prog.Statements = <<>>
    THEN {[value |-> Nil, env |-> e], [value |-> Null, env |-> e]}
    ELSE {Eval(prog, e)}

-----------------------------------------------------------------------------
(* ReplSpec: repl.Start.  The lines are what scanner.Text() yields.        *)

MaxLines == 3

prompt == ">>"

lineBreak == "\n"

\* the lexemes of `if ( condition ) { statements }`
IfLine(condition, statements) ==
    <<kwIf, <<"(">> >> \o condition \o << <<")">>, <<"{">> >> \o statements
        \o << <<"}">> >>

\* the lexemes of `return value ;`
ReturnLine(value) == <<kwReturn, value, <<";">> >>

TenOverOne == << <<"1", "0">>, <<">">>, <<"1">> >>

\* the lines typed in a session
ReplLines ==
    {<<>>, Source(<<kwLet, <<"x">>, <<"=">>, <<"1">> >>), <<")">>,
     Source(<< <<"1">>, <<"+">> >>),
     <<"x">>,
     Source(<<kwLet, <<"x">>, <<"=">>, <<"x">>, <<"+">>, <<"1">> >>),
     Source(IfLine(<< <<"1">>, <<">">>, <<"2">> >>, << <<"1">> >>)),
     Source(IfLine(TenOverOne,
                   IfLine(TenOverOne, ReturnLine(<<"1", "0">>))
                       \o ReturnLine(<<"1">>))),
     Source(IfLine(TenOverOne, ReturnLine(<<"x">>) \o << <<"2">> >>)
                \o << <<";">>, <<"3">> >>),
     Source(IfLine(TenOverOne, << <<"x">>, <<";">>, <<"2">> >>))}

ReplInputs == UNION {[1..n -> ReplLines] : n \in 0..MaxLines}

\* scanner := bufio.NewScanner(in); env := object.NewEnvironment()
ReplInit ==
    /\ lines \in ReplInputs
    /\ prompts = 0
    /\ out = <<>>
    /\ env = NewEnvironment
    /\ handled = <<>>
    /\ input = <<>>
    /\ position = 0
    /\ lpc = "next"
    /\ t = ZeroToken
    /\ result = <<>>
    /\ closed = FALSE
    /\ curToken = ZeroToken
    /\ peekToken = ZeroToken
    /\ got = <<>>
    /\ p = NoParser
    /\ ppc = "scan"
    /\ program = NoProgram
    /\ err = NoError
    /\ iters = 0

\* the last entry of handled changed
Handled(field, value) ==
    [handled EXCEPT ![Len(handled)] = [@ EXCEPT ![field] = value]]

\* fmt.Printf(prompt); scanned := scanner.Scan(); line := scanner.Text()
ReplScan ==
    /\ ppc = "scan"
    /\ prompts' = prompts + 1
    /\ IF lines = <<>>
       THEN /\ ppc' = "returned"
            /\ UNCHANGED <<input, lines, handled>>
       ELSE /\ input' = Head(lines)
            /\ lines' = Tail(lines)
            /\ handled' = Append(handled,
                              [line |-> Head(lines), errors |-> <<>>,
                               program |-> NoProgram, wrote |-> <<>>,
                               evals |-> <<>>, result |-> Nil,
                               envBefore |-> env, envAfter |-> env])
            /\ ppc' = "parse"
    /\ UNCHANGED <<p, program, err, iters, out, env>>
    /\ UNCHANGED lexVars

\* what the call of ParseProgram leaves; a call that does not return leaves
\* the REPL in it
ReplParsed(r) ==
    /\ p' = r.ps
    /\ program' = [kind |-> "Program", Statements |-> r.stmts]
    /\ IF r.returns
       THEN /\ err' = programError(r.ps.errors)
            /\ ppc' = "parsed"
       ELSE /\ ppc' = "hung"
            /\ UNCHANGED err
    /\ handled' = [handled EXCEPT ![Len(handled)] =
                      [@ EXCEPT !.errors = r.ps.errors,
                                !.program = [kind |-> "Program",
                                             Statements |-> r.stmts]]]

\* l := lexer.New(line); p := parser.New(l); program, err := p.ParseProgram()
ReplParse ==
    /\ ppc = "parse"
    /\ \E callsFirst \in BOOLEAN :
          ReplParsed(programLoop([ps |-> New(Lex(input), callsFirst),
                                  stmts |-> <<>>]))
    /\ UNCHANGED <<input, iters, lines, prompts, out, env>>
    /\ UNCHANGED lexVars

\* if err != nil { io.WriteString(out, err.Error()); continue }
ReplError ==
    /\ ppc = "parsed"
    /\ ~err.isNil
    /\ out' = Append(out, err.msg)
    /\ handled' = Handled("wrote", <<err.msg>>)
    /\ ppc' = "scan"
    /\ UNCHANGED <<input, p, program, err, iters, lines, prompts, env>>
    /\ UNCHANGED lexVars

\* what Start writes for evaluated: nothing for nil
Writes(evaluated) ==
    IF ~IsNil(evaluated) THEN <<Inspect(evaluated), <<lineBreak>> >> ELSE <<>>

\* Start after evaluated := evaluator.Eval(program, env)
ReplEvaluated(r) ==
    /\ env' = r.env
    /\ out' = out \o Writes(r.value)
    /\ handled' = [handled EXCEPT ![Len(handled)] =
                      [@ EXCEPT !.evals = Append(@, program),
                                !.envAfter = r.env,
                                !.result = r.value,
                                !.wrote = Writes(r.value)]]

\* the evaluator handed a new environment in place of env
ReplEvalFresh ==
    /\ ppc = "parsed"
    /\ err.isNil
    /\ \E r \in Evaluated(program, NewEnvironment) : ReplEvaluated(r)
    /\ ppc' = "scan"
    /\ UNCHANGED <<input, p, program, err, iters, lines, prompts>>
    /\ UNCHANGED lexVars

\* evaluated := evaluator.Eval(program, env) and the writes after it
ReplEval ==
    /\ ppc = "parsed"
    /\ err.isNil
    /\ \E r \in Evaluated(program, env) : ReplEvaluated(r)
    /\ ppc' = "scan"
    /\ UNCHANGED <<input, p, program, err, iters, lines, prompts>>
    /\ UNCHANGED lexVars

ReplNext == ReplScan \/ ReplParse \/ ReplError \/ ReplEval

ReplSpec == ReplInit /\ [][ReplNext]_vars

-----------------------------------------------------------------------------
(* The structure of a node: its kind, operators, values and children,      *)
(* without the tokens it was built from.                                   *)

Id(value) == [kind |-> "Identifier", Value |-> value]

Prefix(operator, right) ==
    [kind |-> "PrefixExpression", Operator |-> operator, Right |-> right]

Infix(left, operator, right) ==
    [kind |-> "InfixExpression", Operator |-> operator, Left |-> left,
     Right |-> right]

Call(function, arguments) ==
    [kind |-> "CallExpression", Function |-> function, Arguments |-> arguments]

Index(left, index) ==
    [kind |-> "IndexExpression", Left |-> left, Index |-> index]

ExprStmt(expression) ==
    [kind |-> "ExpressionStatement", Expression |-> expression]

RECURSIVE Shape(_)
Shape(n) ==
    LET Each(ns) == [i \in 1..Len(ns) |-> Shape(ns[i])] IN
    CASE n.kind = "Program" ->
           [kind |-> "Program", Statements |-> Each(n.Statements)]
      [] n.kind = "ExpressionStatement" -> ExprStmt(Shape(n.Expression))
      [] n.kind = "LetStatement" ->
           IF n.nilPointer THEN n
           ELSE [kind |-> "LetStatement", Name |-> n.Name.Value,
                 Value |-> Shape(n.Value)]
      [] n.kind = "ReturnStatement" ->
           [kind |-> "ReturnStatement", ReturnValue |-> Shape(n.ReturnValue)]
      [] n.kind = "BlockStatement" ->
           [kind |-> "BlockStatement", Statements |-> Each(n.Statements)]
      [] n.kind \in {"Identifier", "IntegerLiteral", "BooleanLiteral",
                     "StringLiteral"} ->
           [kind |-> n.kind, Value |-> n.Value]
      [] n.kind = "PrefixExpression" -> Prefix(n.Operator, Shape(n.Right))
      [] n.kind = "InfixExpression" ->
           Infix(Shape(n.Left), n.Operator, Shape(n.Right))
      [] n.kind = "CallExpression" ->
           Call(Shape(n.Function), Each(n.Arguments))
      [] n.kind = "ArrayLiteral" ->
           [kind |-> "ArrayLiteral", Elements |-> Each(n.Elements)]
      [] n.kind = "IndexExpression" -> Index(Shape(n.Left), Shape(n.Index))
      [] n.kind = "IfExpression" ->
           [kind |-> "IfExpression", Condition |-> Shape(n.Condition),
            Consequence |-> Shape(n.Consequence),
            Alternative |-> Shape(n.Alternative)]
      [] n.kind = "FunctionLiteral" ->
           [kind |-> "FunctionLiteral", Parameters |-> Each(n.Parameters),
            Body |-> Shape(n.Body)]
      [] OTHER -> n

RECURSIVE SubNodes(_)
\* a node and every node below it
SubNodes(n) ==
    LET Below(ns) == UNION {SubNodes(ns[i]) : i \in 1..Len(ns)} IN
    {n} \cup
    CASE n.kind \in {"Program", "BlockStatement"} -> Below(n.Statements)
      [] n.kind = "ExpressionStatement" -> SubNodes(n.Expression)
      [] n.kind = "LetStatement" ->
           IF n.nilPointer THEN {} ELSE SubNodes(n.Name) \cup SubNodes(n.Value)
      [] n.kind = "ReturnStatement" -> SubNodes(n.ReturnValue)
      [] n.kind = "PrefixExpression" -> SubNodes(n.Right)
      [] n.kind = "InfixExpression" -> SubNodes(n.Left) \cup SubNodes(n.Right)
      [] n.kind = "CallExpression" ->
           SubNodes(n.Function) \cup Below(n.Arguments)
      [] n.kind = "ArrayLiteral" -> Below(n.Elements)
      [] n.kind = "IndexExpression" -> SubNodes(n.Left) \cup SubNodes(n.Index)
      [] n.kind = "IfExpression" ->
           SubNodes(n.Condition) \cup SubNodes(n.Consequence)
           \cup SubNodes(n.Alternative)
      [] n.kind = "FunctionLiteral" -> Below(n.Parameters) \cup SubNodes(n.Body)
      [] n.kind = "HashLiteral" ->
           UNION {SubNodes(n.Pairs[i].key) \cup SubNodes(n.Pairs[i].value) :
                    i \in 1..Len(n.Pairs)}
      [] OTHER -> {}

-----------------------------------------------------------------------------
(* Claims about the parser.                                                *)

\* C1: for every input, parser.New followed by ParseProgram returns after
\* finitely many steps: no parse function loops without end, and the loop of
\* ParseProgram, every turn of which takes at least one token, does not take
\* more turns than the lexer produced tokens.
C1_ParseProgramReturns ==
    /\ ppc # "hung"
    /\ ppc = "loop" => iters <= Len(Lex(input))

\* the ladder EQUALS < LESSGREATER < SUM < PRODUCT of the binary operators
C7_Ladder(operator) ==
    CASE operator \in {<<"=", "=">>, <<"!", "=">>} -> 1
      [] operator \in {<<"<">>, <<">">>} -> 2
      [] operator \in {<<"+">>, <<"-">>} -> 3
      [] operator \in {<<"*">>, <<"/">>} -> 4

C7_Operand(x) ==
    IF x = <<"a">> THEN Id(<<"a">>)
    ELSE Infix(Id(<<"b">>), <<"+">>, Id(<<"c">>))

C7_Expected(x, o1, y, o2, z) ==
    IF C7_Ladder(o1) >= C7_Ladder(o2)
    THEN Infix(Infix(C7_Operand(x), o1, C7_Operand(y)), o2, C7_Operand(z))
    ELSE Infix(C7_Operand(x), o1, Infix(C7_Operand(y), o2, C7_Operand(z)))

\* C7: the parse of `x o1 y o2 z`, o1 and o2 binary operators and each operand
\* a name or a parenthesised group, is ((x o1 y) o2 z) when o1 stands at least
\* as high as o2 on the ladder EQUALS < LESSGREATER < SUM < PRODUCT, and
\* (x o1 (y o2 z)) otherwise; the group is one operand.
C7_PrecedenceClimbing ==
    (ppc = "done" /\ input \in PrecedenceInputs) =>
        \A x \in Operands, y \in Operands, z \in Operands,
           o1 \in BinaryOperators, o2 \in BinaryOperators :
            input = Source(<<x, o1, y, o2, z>>) =>
                /\ err.isNil
                /\ Len(program.Statements) = 1
                /\ Shape(program.Statements[1])
                     = ExprStmt(C7_Expected(x, o1, y, o2, z))

C7_Witness ==
    /\ ppc = "done"
    /\ input = Source(<<<<"a">>, <<"+">>, <<"(", "b", " ", "+", " ", "c", ")">>,
                        <<"*">>, <<"a">>>>)
    /\ NodeString(program)
         = <<"(", "a", " ", "+", " ", "(", "(", "b", " ", "+", " ", "c", ")",
             " ", "*", " ", "a", ")", ")">>

C8_Operand(x) ==
    CASE x = <<"a">> -> Id(<<"a">>)
      [] x = <<"f", "(", "x", ")">> -> Call(Id(<<"f">>), <<Id(<<"x">>)>>)
      [] x = <<"a", "[", "i", "]">> -> Index(Id(<<"a">>), Id(<<"i">>))
      [] OTHER -> Infix(Id(<<"a">>), <<"+">>, Id(<<"b">>))

RECURSIVE C8_Nest(_, _)
\* the prefix operators applied to an operand, the last one first
C8_Nest(operators, operand) ==
    IF operators = <<>> THEN operand
    ELSE Prefix(Head(operators), C8_Nest(Tail(operators), operand))

C8_Expected(operators, x, rest) ==
    IF rest = <<>> THEN C8_Nest(operators, C8_Operand(x))
    ELSE Infix(C8_Nest(operators, C8_Operand(x)), rest[1], Id(rest[2]))

C8_Inputs ==
    {<<q, x, r>> :
        q \in {<<o>> : o \in PrefixOperators}
              \cup {<<o1, o2>> : o1 \in PrefixOperators, o2 \in PrefixOperators},
        x \in {<<"a">>, <<"f", "(", "x", ")">>, <<"a", "[", "i", "]">>,
               <<"(", "a", " ", "+", " ", "b", ")">>},
        r \in {<<>>} \cup {<<o, <<"b">>>> : o \in BinaryOperators}}

\* C8: one or two prefix operators before an operand that is a name, a call,
\* an index expression or a group take that operand alone: they nest from
\* right to left around it, the call and the index belong to the operand, and
\* a binary operator that follows takes the whole prefix expression as its
\* left side.
C8_PrefixBinding ==
    (ppc = "done" /\ input \in PrefixOpInputs) =>
        \A i \in C8_Inputs :
            input = Source(i[1] \o <<i[2]>> \o i[3]) =>
                /\ err.isNil
                /\ Len(program.Statements) = 1
                /\ Shape(program.Statements[1])
                     = ExprStmt(C8_Expected(i[1], i[2], i[3]))

C8_Witness ==
    /\ ppc = "done"
    /\ input = <<"!", " ", "-", " ", "f", "(", "x", ")", " ", "*", " ", "b">>
    /\ NodeString(program)
         = <<"(", "(", "!", "(", "-", "f", "(", "x", ")", ")", ")", " ", "*",
             " ", "b", ")">>

C9_Kinds ==
    {"Program", "ExpressionStatement", "Identifier", "IntegerLiteral",
     "BooleanLiteral", "PrefixExpression", "InfixExpression", "CallExpression",
     "ArrayLiteral", "IndexExpression"}

\* an error-free parse has returned a program of the kinds of nodes C9 names
C9_InScope ==
    /\ ppc = "done"
    /\ err.isNil
    /\ \A n \in SubNodes(program) : n.kind \in C9_Kinds

\* parsing n.String() succeeds and yields the structure of n
C9_RoundTrips(n) ==
    LET r == ParseProgram(NodeString(n), p.callsFirst) IN
    /\ r.returns
    /\ r.err.isNil
    /\ IF n.kind = "Program" THEN Shape(r.program) = Shape(n)
       ELSE /\ Len(r.program.Statements) = 1
            /\ Shape(r.program.Statements[1])
                 = IF n.kind = "ExpressionStatement" THEN Shape(n)
                   ELSE ExprStmt(Shape(n))

\* C9: every node of an error-free parse of a source of identifiers, integer
\* and boolean literals, prefix and infix operators, groups, calls, array
\* literals and index expressions, the Program of several statements included,
\* parses back from its String() to a node of the same structure.
C9_StringRoundTrip ==
    C9_InScope => \A n \in SubNodes(program) : C9_RoundTrips(n)

\* C9 amended: the same for every expression and statement node, and for a
\* Program of at most one statement.
C9_StringRoundTripOneStatement ==
    C9_InScope =>
        \A n \in SubNodes(program) :
            (n.kind = "Program" => Len(n.Statements) <= 1) => C9_RoundTrips(n)

C9_Witness ==
    /\ C9_InScope
    /\ Len(program.Statements) = 1
    /\ program.Statements[1].Expression.kind = "InfixExpression"
    /\ program.Statements[1].Expression.Right.kind = "CallExpression"
    /\ NodeString(program) # input
    /\ C9_RoundTrips(program)

RECURSIVE C10_Listed(_, _)
\* the messages from the i-th on, `, ` before each but the first
C10_Listed(errors, i) ==
    IF i > Len(errors) THEN <<>>
    ELSE (IF i > 1 THEN <<", ">> ELSE <<>>) \o errors[i]
         \o C10_Listed(errors, i + 1)

\* C10: the messages are only ever added at the end of the record, and when
\* ParseProgram returns the error is nil exactly when none was recorded, its
\* message is `error while parsing input: ` and the recorded messages in
\* their order, joined by `, `, and the program is returned either way.
C10_AggregateError ==
    /\ [](ppc = "done" =>
            /\ err.isNil <=> Len(p.errors) = 0
            /\ ~err.isNil =>
                 err.msg = <<"error while parsing input: ">>
                           \o C10_Listed(p.errors, 1)
            /\ program.kind = "Program")
    /\ [][/\ Len(p'.errors) >= Len(p.errors)
          /\ SubSeq(p'.errors, 1, Len(p.errors)) = p.errors]_vars

C10_Witness ==
    /\ ppc = "done"
    /\ Len(p.errors) >= 2
    /\ Len(program.Statements) >= 1
    /\ ~err.isNil

\* the token that introduces a node of each kind
C11_Introduces(n) ==
    CASE n.kind = "IfExpression" -> n.Token.Type = KeywordIf
      [] n.kind = "BlockStatement" -> n.Token.Type = DelimiterLeftBrace
      [] n.kind = "FunctionLiteral" -> n.Token.Type = KeywordFunction
      [] n.kind = "CallExpression" -> n.Token.Type = DelimiterLeftParenthesis
      [] n.kind \in {"ArrayLiteral", "IndexExpression"} ->
           n.Token.Type = DelimiterLeftBracket
      [] n.kind = "PrefixExpression" ->
           /\ n.Token.Type \in {OperatorBang, OperatorMinus}
           /\ n.Token.Literal = n.Operator
      [] n.kind = "InfixExpression" ->
           /\ n.Token.Type \in {OperatorEqual, OperatorNotEqual,
                                OperatorLowerThan, OperatorGreaterThan,
                                OperatorPlus, OperatorMinus, OperatorSlash,
                                OperatorAsterisk}
           /\ n.Token.Literal = n.Operator
      [] n.kind = "LetStatement" ->
           n.nilPointer \/ n.Token.Type = KeywordLet
      [] n.kind = "ReturnStatement" -> n.Token.Type = KeywordReturn
      [] OTHER -> TRUE

\* C11: in the program of an error-free parse every node holds in Token the
\* token that introduced it: `if`, `{`, `fn`, `(`, `[`, the operator, `let`,
\* `return`, and for the first statement the first token of the input.
C11_TokenIntroducesNode ==
    (ppc = "done" /\ err.isNil) =>
        /\ \A n \in SubNodes(program) : C11_Introduces(n)
        /\ program.Statements # <<>> =>
             program.Statements[1].Token = Lex(input)[1]

RECURSIVE C12_Leq(_, _)
\* a <= b for runs of digits of one length
C12_Leq(a, b) ==
    \/ a = <<>>
    \/ DigitValue[Head(a)] < DigitValue[Head(b)]
    \/ Head(a) = Head(b) /\ C12_Leq(Tail(a), Tail(b))

\* the decimal value of the run is at most 9223372036854775807
C12_Fits(digits) ==
    LET d == StripZeros(digits)
        max == <<"9","2","2","3","3","7","2","0","3","6","8","5","4","7","7",
                 "5","8","0","7">>
    IN  Len(d) < Len(max) \/ (Len(d) = Len(max) /\ C12_Leq(d, max))

\* C12: an input that is one run of decimal digits parses, when its decimal
\* value fits 64 bits, to one IntegerLiteral with that value and the run as
\* its literal, leading zeros or not; otherwise to no node and the one error
\* `could not parse "<run>" as integer`.
C12_IntegerLiteralDecimal ==
    (/\ ppc = "done"
     /\ input # <<>>
     /\ \A i \in 1..Len(input) : isDigit(input[i])) =>
        /\ Len(program.Statements) = 1
        /\ IF C12_Fits(input)
           THEN /\ err.isNil
                /\ program.Statements[1].Expression.kind = "IntegerLiteral"
                /\ program.Statements[1].Expression.Token.Literal = input
                /\ program.Statements[1].Expression.Value = Numeral(input)
           ELSE /\ IsNil(program.Statements[1].Expression)
                /\ p.errors = << <<"could not parse \"">> \o input
                                   \o <<"\" as integer">> >>

\* the parse of the input with `;` after it is the program the input gave
C13_SameWithSemicolon ==
    LET r == ParseProgram(input \o <<";">>, p.callsFirst) IN
    /\ r.returns
    /\ r.err.isNil
    /\ Len(r.program.Statements) = 1
    /\ r.program = program

\* the input has parsed without error to one statement
C13_OneStatement ==
    /\ ppc = "done"
    /\ err.isNil
    /\ Len(program.Statements) = 1

\* C13: when an input s parses without error to one statement, `s;` parses
\* without error to the same program of one statement.
C13_SemicolonOptional == C13_OneStatement => C13_SameWithSemicolon

\* the input does not end in `;` and its last string literal is closed
C13_Complete ==
    /\ Lex(input)[Len(Lex(input)) - 1].Type # DelimiterSemicolon
    /\ Cardinality({i \in 1..Len(input) : input[i] = "\""}) % 2 = 0

\* C13 amended: the same for a statement s that does not already end in `;`
\* and whose string literals are closed.
C13_SemicolonOptionalComplete ==
    (C13_OneStatement /\ C13_Complete) => C13_SameWithSemicolon

C13_Witness ==
    /\ C13_OneStatement
    /\ C13_Complete
    /\ program.Statements[1].kind = "LetStatement"
    /\ program.Statements[1].Value.kind = "FunctionLiteral"
    /\ C13_SameWithSemicolon

\* the indices of the double quotes after the one at index q
C14_Closing(q) == {j \in (q + 1)..Len(input) : input[j] = "\""}

\* the smallest of a set of indices
C14_First(S) == CHOOSE j \in S : \A k \in S : j <= k

\* C14: when the lexer is about to read a token and the byte at the cursor,
\* whitespace skipped, is a double quote, the token is STRING, its literal the
\* bytes up to the next double quote, whatever they are, and the cursor is
\* left after that quote; with no next quote the literal is the rest of the
\* input and the token after it is EOF.
C14_StringLiteral ==
    LET q == skipWhitespace(input, position) + 1
        r == nextToken(input, position)
    IN  (lpc = "next" /\ peekChar(input, q - 1) = "\"") =>
            /\ r.tok.Type = TypeString
            /\ IF C14_Closing(q) # {}
               THEN /\ r.tok.Literal
                         = SubSeq(input, q + 1, C14_First(C14_Closing(q)) - 1)
                    /\ r.position = C14_First(C14_Closing(q))
               ELSE /\ r.tok.Literal = SubSeq(input, q + 1, Len(input))
                    /\ nextToken(input, r.position).tok.Type = Eof

\* the kind of a run of letters and underscores
C15_Kind(literal) ==
    CASE literal = <<"f", "n">> -> "FUNCTION"
      [] literal = <<"l", "e", "t">> -> "LET"
      [] literal = <<"t", "r", "u", "e">> -> "TRUE"
      [] literal = <<"f", "a", "l", "s", "e">> -> "FALSE"
      [] literal = <<"i", "f">> -> "IF"
      [] literal = <<"e", "l", "s", "e">> -> "ELSE"
      [] literal = <<"r", "e", "t", "u", "r", "n">> -> "RETURN"
      [] OTHER -> "IDENT"

\* the index of the last byte of the run of letters and underscores that
\* starts at index q
C15_RunEnd(q) ==
    CHOOSE e \in q..Len(input) :
        /\ \A i \in q..e : input[i] \in Letters
        /\ e = Len(input) \/ input[e + 1] \notin Letters

\* C15: when the lexer is about to read a token and the byte at the cursor,
\* whitespace skipped, is a letter or an underscore, the literal of the token
\* is the longest run of letters and underscores from there (a digit ends
\* it), the cursor is left after the run, and the kind is the keyword kind
\* for fn, let, true, false, if, else, return and IDENT for any other run.
C15_IdentifierRun ==
    LET q == skipWhitespace(input, position) + 1
        r == nextToken(input, position)
    IN  (lpc = "next" /\ q <= Len(input) /\ input[q] \in Letters) =>
            /\ r.tok.Literal = SubSeq(input, q, C15_RunEnd(q))
            /\ r.position = C15_RunEnd(q)
            /\ r.tok.Type = C15_Kind(r.tok.Literal)

C15_Witness ==
    /\ input = <<"l", "e", "t", "1", "x">>
    /\ Received = <<newToken(KeywordLet, kwLet), newToken(TypeInteger, <<"1">>),
                    newToken(Ident, <<"x">>), EofToken>>

\* the program is one function literal whose parameters are the names
C16_HasParameters(names) ==
    /\ Len(program.Statements) = 1
    /\ program.Statements[1].kind = "ExpressionStatement"
    /\ LET f == program.Statements[1].Expression IN
       /\ f.kind = "FunctionLiteral"
       /\ Len(f.Parameters) = Len(names)
       /\ \A i \in 1..Len(names) :
             /\ f.Parameters[i].Value = names[i]
             /\ f.Parameters[i].Token = newToken(Ident, names[i])

\* C16: for `fn(p1, ..., pn) { x }` the parameter list holds the n names in
\* the order written, each built from an IDENT token, and the parse is free
\* of errors; when a token of another kind stands at the place of a
\* parameter the parse reports an error.
C16_FunctionParameters ==
    (ppc = "done" /\ Len(input) >= 2 /\ SubSeq(input, 1, 2) = kwFn) =>
        \A ps \in ParameterLists :
            input = FunctionSource(ps, << <<",">> >>, FunctionTail) =>
                IF \A i \in 1..Len(ps) : LookupIdent(ps[i]) = Ident /\ isLetter(ps[i][1])
                THEN err.isNil /\ C16_HasParameters(ps)
                ELSE ~err.isNil

\* the expression that the lexemes give when they are parsed on their own,
\* from precedence LOWEST
ParsedAlone(lexemes) ==
    ParseProgram(Source(lexemes), p.callsFirst).program.Statements[1].Expression

\* the list the elements give
C17_List(es) == [i \in 1..Len(es) |-> ParsedAlone(es[i])]

RECURSIVE SplitAt(_, _)
\* the pieces of the sequence between the occurrences of sep
SplitAt(seq, sep) ==
    IF \A i \in 1..Len(seq) : seq[i] # sep THEN <<seq>>
    ELSE LET i == CHOOSE i \in 1..Len(seq) :
                      seq[i] = sep /\ \A j \in 1..(i - 1) : seq[j] # sep
         IN  <<SubSeq(seq, 1, i - 1)>> \o SplitAt(SubSeq(seq, i + 1, Len(seq)), sep)

\* the lexemes of the input, which are written with one space between them
Lexemes == SplitAt(input, " ")

\* what is written between the commas
Written(lexemes) == IF lexemes = <<>> THEN <<>> ELSE SplitAt(lexemes, <<",">>)

\* the input read as `opening e1 , ... , en closing`: whether it is written
\* so with every ei out of ElementLexemes, and the ei
C17_Read(opening, closing) ==
    LET ls == Lexemes
        k == Len(opening)
        m == Len(ls) - Len(closing)
        es == Written(SubSeq(ls, k + 1, m))
    IN  IF /\ m >= k
           /\ SubSeq(ls, 1, k) = opening
           /\ SubSeq(ls, m + 1, Len(ls)) = closing
           /\ \A i \in 1..Len(es) : es[i] \in ElementLexemes
        THEN [ok |-> TRUE, es |-> es]
        ELSE [ok |-> FALSE, es |-> <<>>]

\* the program is one expression statement with this list in its call or
\* array literal
C17_HasList(kind, list) ==
    /\ Len(program.Statements) = 1
    /\ program.Statements[1].kind = "ExpressionStatement"
    /\ LET e == program.Statements[1].Expression IN
       /\ e.kind = kind
       /\ IF kind = "CallExpression"
          THEN e.Function = identifierOf(newToken(Ident, <<"f">>))
               /\ e.Arguments = list
          ELSE e.Elements = list

\* exactly one error is recorded, for the missing closing token
C17_OneExpectedError(end, after) ==
    p.errors = << <<"expected next token to be ", end, ", got ", after,
                    " instead">> >>

\* the list is closed: no error and the n expressions in their order
C17_Closed(opening, closing, kind) ==
    LET r == C17_Read(opening, closing) IN
    r.ok => err.isNil /\ C17_HasList(kind, C17_List(r.es))

\* the list is cut after its last expression: one error
C17_Cut(opening, tail, end, after) ==
    LET r == C17_Read(opening, tail) IN
    (r.ok /\ r.es # <<>>) => C17_OneExpectedError(end, after)

\* C17: a call `f(e1, ..., en)` and an array literal `[e1, ..., en]` parse
\* without error to a node whose list holds the n expressions in the order
\* written, each as it parses from LOWEST; when the list is cut after its
\* last expression (the input ends there, or a `;` follows) exactly one
\* error is recorded, the expected-token error for `)` or `]`.
C17_ExpressionList ==
    ppc = "done" =>
        /\ C17_Closed(CallOpening, << <<")">> >>, "CallExpression")
        /\ C17_Closed(ArrayOpening, << <<"]">> >>, "ArrayLiteral")
        /\ C17_Cut(CallOpening, <<>>, ")", "EOF")
        /\ C17_Cut(CallOpening, << <<";">> >>, ")", ";")
        /\ C17_Cut(ArrayOpening, <<>>, "]", "EOF")
        /\ C17_Cut(ArrayOpening, << <<";">> >>, "]", ";")

C17_Witness ==
    /\ ppc = "done"
    /\ input = ListSource(CallOpening,
                          << << <<"a">>, <<"+">>, <<"1">> >>, << <<"a">> >>,
                             << <<"g">>, <<"(">>, <<"a">>, <<")">> >> >>,
                          << <<")">> >>)
    /\ Len(program.Statements[1].Expression.Arguments) = 3
    /\ program.Statements[1].Expression.Arguments[1].kind = "InfixExpression"

\* the input read as `{ k1 : v1 , ... , kn : vn }`: whether it is written so
\* with the keys out of KeyLexemes and the values out of ValueLexemes, and
\* the pairs
C18_Read ==
    LET ls == Lexemes
        prs == Written(SubSeq(ls, 2, Len(ls) - 1))
        kv == [i \in 1..Len(prs) |-> SplitAt(prs[i], <<":">>)]
    IN  IF /\ Len(ls) >= 2
           /\ ls[1] = <<"{">>
           /\ ls[Len(ls)] = <<"}">>
           /\ \A i \in 1..Len(kv) :
                 /\ Len(kv[i]) = 2
                 /\ kv[i][1] \in KeyLexemes
                 /\ kv[i][2] \in ValueLexemes
        THEN [ok |-> TRUE,
              pairs |-> [i \in 1..Len(kv) |->
                            [key |-> kv[i][1], value |-> kv[i][2]]]]
        ELSE [ok |-> FALSE, pairs |-> <<>>]

\* C18: a hash literal `{k1: v1, ..., kn: vn}` that parses without error is
\* a HashLiteral of exactly n pairs, the i-th of which holds the key ki with
\* the value vi written after its colon, also when keys are written alike.
C18_HashPairs ==
    (ppc = "done" /\ err.isNil /\ C18_Read.ok) =>
        /\ Len(program.Statements) = 1
        /\ program.Statements[1].kind = "ExpressionStatement"
        /\ LET h == program.Statements[1].Expression
               prs == C18_Read.pairs
           IN  /\ h.kind = "HashLiteral"
               /\ Len(h.Pairs) = Len(prs)
               /\ \A i \in 1..Len(prs) :
                     /\ h.Pairs[i].key = ParsedAlone(prs[i].key)
                     /\ h.Pairs[i].value = ParsedAlone(prs[i].value)

C18_Witness ==
    /\ ppc = "done"
    /\ err.isNil
    /\ input = HashSource(<< [key |-> << <<"a">> >>, value |-> << <<"1">> >>],
                             [key |-> << <<"\"", "s", "\"">> >>,
                              value |-> << <<"1">> >>],
                             [key |-> << <<"a">> >>,
                              value |-> << <<"a">>, <<"+">>, <<"1">> >>] >>,
                          HashClosing)
    /\ Len(program.Statements[1].Expression.Pairs) = 3

\* the statements that the written statements give, each parsed on its own
C19_Statements(block) ==
    [i \in 1..Len(block) |->
        ParseProgram(Source(block[i]), p.callsFirst).program.Statements[1]]

\* the first statement of the program is an if expression of condition c
\* and consequence A
C19_IsIf(c, A) ==
    /\ program.Statements # <<>>
    /\ program.Statements[1].kind = "ExpressionStatement"
    /\ LET e == program.Statements[1].Expression IN
       /\ e.kind = "IfExpression"
       /\ e.Condition = ParsedAlone(c)
       /\ e.Consequence.kind = "BlockStatement"
       /\ e.Consequence.Statements = C19_Statements(A)

\* C19: `if (c) { A }` parses without error to an IfExpression of condition
\* c whose consequence holds the statements of A in the order written; it
\* has no alternative when the token after the closing brace is not `else`
\* (the end of the input, `;`, a name) and has the alternative block with the
\* statements of B in the order written when `else { B }` follows.
C19_IfExpression ==
    (ppc = "done" /\ Len(input) >= 2 /\ SubSeq(input, 1, 2) = kwIf) =>
        \A c \in IfConditions, A \in BlockLists :
            LET head == IfSource(c, A, <<>>) IN
            (Len(input) >= Len(head) /\ SubSeq(input, 1, Len(head)) = head) =>
                /\ \A tl \in IfTails :
                      input = IfSource(c, A, tl) =>
                          /\ err.isNil
                          /\ C19_IsIf(c, A)
                          /\ IsNil(program.Statements[1].Expression.Alternative)
                /\ \A B \in BlockLists :
                      input = IfSource(c, A, ElseTail(B)) =>
                          /\ err.isNil
                          /\ C19_IsIf(c, A)
                          /\ LET alt ==
                                   program.Statements[1].Expression.Alternative
                             IN  /\ alt.kind = "BlockStatement"
                                 /\ alt.Statements = C19_Statements(B)

C19_Witness ==
    /\ ppc = "done"
    /\ err.isNil
    /\ input = IfSource(<< <<"a">>, <<"<">>, <<"1">> >>,
                        << << kwLet, <<"x">>, <<"=">>, <<"1">>, <<";">> >>,
                           << <<"a">> >> >>,
                        ElseTail(<< << kwReturn, <<"a">>, <<";">> >>,
                                    << <<"1">>, <<";">> >> >>))
    /\ Len(program.Statements[1].Expression.Consequence.Statements) = 2
    /\ Len(program.Statements[1].Expression.Alternative.Statements) = 2

\* the REPL is done with the i-th line it read
C20_Done(i) == i < Len(handled) \/ ppc \in {"scan", "returned"}

\* C20: the REPL gets past every line whose parse records an error: it
\* writes the aggregate error, passes nothing to the evaluator, leaves the
\* environment as it was and reads on; for a line that parses without error
\* it calls the evaluator once, on the program of the line.
C20_ReplLine ==
    /\ ppc = "hung" => p.errors = <<>>
    /\ \A i \in 1..Len(handled) :
          C20_Done(i) =>
              IF handled[i].errors # <<>>
              THEN /\ handled[i].wrote =
                          << <<"error while parsing input: ">>
                             \o JoinBytes(handled[i].errors, <<", ">>) >>
                   /\ handled[i].evals = <<>>
                   /\ handled[i].envAfter = handled[i].envBefore
              ELSE handled[i].evals = <<handled[i].program>>

\* the lines of the session so far that were handed to the evaluator
C21_Evaluated == {i \in 1..Len(handled) : handled[i].evals # <<>>}

\* C21: one environment, created before the first line is read, is handed
\* to the evaluator for every line of the session: each line is evaluated in
\* the environment the line before it has left, a line that fails to parse
\* leaves it as it was, and a name bound by one line is bound for every
\* later line.
C21_SessionEnvironment ==
    \A i \in 1..Len(handled) :
       /\ handled[i].envBefore =
             IF i = 1 THEN NewEnvironment ELSE handled[i - 1].envAfter
       /\ i \in C21_Evaluated =>
             [value |-> handled[i].result, env |-> handled[i].envAfter]
                 \in Evaluated(handled[i].program, handled[i].envBefore)
       /\ i \notin C21_Evaluated => handled[i].envAfter = handled[i].envBefore
       /\ \A j \in C21_Evaluated :
             j < i => DOMAIN handled[j].envAfter \subseteq
                          DOMAIN handled[i].envBefore

\* `let x = 1`, a line that fails to parse, then `x`: the third line writes 1
C21_Witness ==
    /\ ppc = "scan"
    /\ Len(handled) = 3
    /\ handled[1].line = Source(<<kwLet, <<"x">>, <<"=">>, <<"1">> >>)
    /\ handled[2].errors # <<>>
    /\ handled[3].line = <<"x">>
    /\ handled[3].result = Integer(1)
    /\ out[Len(out) - 1] = <<"1">>


\* C22: for a line whose evaluation yields the Null value the REPL writes
\* nothing; for every other value it writes the value's inspect form and
\* then one newline.
C22_NullWritesNothing ==
    \A i \in C21_Evaluated :
       C20_Done(i) /\ ~IsNil(handled[i].result) =>
          handled[i].wrote =
             IF handled[i].result = Null THEN <<>>
             ELSE <<Inspect(handled[i].result), <<lineBreak>> >>


RECURSIVE C23_Run(_, _)
\* the statements evaluated one after the other, each in the environment
\* the one before it has left, up to the first whose value is a ReturnValue
\* or an Error
C23_Run(stmts, e) ==
    IF stmts = <<>> THEN <<>>
    ELSE LET r == Eval(Head(stmts), e) IN
         IF r.value.kind \in {"ReturnValue", "Error"} THEN <<r>>
         ELSE <<r>> \o C23_Run(Tail(stmts), r.env)

\* the value a program makes of the last value evaluated
C23_Unwrapped(r) ==
    IF r.value.kind = "ReturnValue" THEN [r EXCEPT !.value = r.value.Value]
    ELSE r

\* C23: the value of a block is the value of its first statement that
\* yields a ReturnValue or an Error, still wrapped, and the statements after
\* it are not evaluated; the value of a program is found in the same way,
\* with a ReturnValue replaced by the value inside it.
C23_ReturnStops ==
    Len(handled) \in C21_Evaluated =>
       LET h == handled[Len(handled)] IN
       /\ \A n \in SubNodes(h.program) :
             n.kind = "BlockStatement" /\ n.Statements # <<>> =>
                LET run == C23_Run(n.Statements, h.envBefore) IN
                evalBlockStatement(n.Statements, h.envBefore, Nil)
                    = run[Len(run)]
       /\ h.program.Statements # <<>> =>
             LET run == C23_Run(h.program.Statements, h.envBefore) IN
             /\ Eval(h.program, h.envBefore) = C23_Unwrapped(run[Len(run)])
             /\ h.result = C23_Unwrapped(run[Len(run)]).value

\* `if (10 > 1) { if (10 > 1) { return 10; } return 1; }` evaluates to 10
C23_Witness ==
    /\ ppc = "scan"
    /\ Len(handled) = 1
    /\ handled[1].line =
          Source(IfLine(TenOverOne,
                        IfLine(TenOverOne, ReturnLine(<<"1", "0">>))
                            \o ReturnLine(<<"1">>)))
    /\ handled[1].result = Integer(10)
    /\ out = <<FormatInt(10), <<lineBreak>> >>


\* the node is a null entry of a statement list: nil, or a nil pointer
C24_Null(n) == IsNil(n) \/ (n.kind = "LetStatement" /\ n.nilPointer)

\* C24: no statement list of the program that ParseProgram returns, nor of
\* a block in it, holds a null entry: a statement whose parse failed is left
\* out of the list.
C24_NoNullStatement ==
    ppc = "done" =>
       \A n \in SubNodes(program) :
          n.kind \in {"Program", "BlockStatement"} =>
             \A i \in 1..Len(n.Statements) : ~C24_Null(n.Statements[i])


\* ParseProgram can return: parser.New has read twice and the test
\* p.curToken.Type != token.Eof of its loop fails
C25_Returns == Len(got) >= 2 /\ curToken.Type = Eof

\* C25: whenever ParseProgram returns, the goroutine of Tokens has sent EOF,
\* has closed the channel and is gone: it is not left waiting to send,
\* however many tokens there are for the ten places of the channel.
C25_ProducerDone ==
    C25_Returns =>
       /\ Eof \in {Received[i].Type : i \in 1..Len(Received)}
       /\ closed
       /\ lpc = "exit"
       /\ result = <<>>

\* more tokens than the channel holds
C25_Witness ==
    /\ C25_Returns
    /\ Len(Received) > ChanCap + 1
    /\ lpc = "exit"


\* the kinds the parse functions call expectPeek with
C26_Kinds ==
    {Ident, OperatorAssign, DelimiterLeftParenthesis,
     DelimiterRightParenthesis, DelimiterLeftBrace, DelimiterRightBracket,
     DelimiterColon, DelimiterComma}

\* the parser one token on: what a receive from its channel yields
C26_Received(ps) ==
    IF ps.tokens # <<>> THEN Head(ps.tokens) ELSE ZeroToken

\* C26: when the peek token has kind t, expectPeek(t) moves the parser on
\* by exactly one token and records nothing; otherwise it leaves curToken
\* and peekToken as they are, takes no token from the lexer and appends the
\* one message `expected next token to be <t>, got <peek kind> instead`.
C26_ExpectPeek ==
    ppc # "start" =>
       \A tt \in C26_Kinds :
          LET e == expectPeek(p, tt) IN
          IF p.peekToken.Type = tt
          THEN /\ e.ok
               /\ e.ps = [p EXCEPT !.curToken = p.peekToken,
                                   !.peekToken = C26_Received(p),
                                   !.tokens = IF p.tokens # <<>>
                                              THEN Tail(p.tokens) ELSE <<>>]
          ELSE /\ ~e.ok
               /\ e.ps = [p EXCEPT !.errors = Append(p.errors,
                            <<"expected next token to be ", tt, ", got ",
                              p.peekToken.Type, " instead">>)]

\* `let = a`: the expectPeek of parseLetStatement has failed once
C26_Witness ==
    /\ ppc = "done"
    /\ Lexemes = <<kwLet, <<"=">>, <<"a">> >>
    /\ p.errors[1] = <<"expected next token to be ", Ident, ", got ",
                       OperatorAssign, " instead">>


\* the i-th value the channel yields: the i-th token of the input, and the
\* zero token once the channel is closed and drained
C27_Yielded(i) == IF i <= Len(Lex(input)) THEN Lex(input)[i] ELSE ZeroToken

\* C27: after the two reads of parser.New and after every nextToken,
\* peekToken is the token that follows curToken in the token sequence of
\* the lexer, and each nextToken moves both by one place: after n reads
\* curToken is the token n - 1 and peekToken the token n, so each token is
\* curToken once, in order, and none is skipped.
C27_Lookahead ==
    Len(got) >= 2 =>
       /\ curToken = C27_Yielded(Len(got) - 1)
       /\ peekToken = C27_Yielded(Len(got))

\* the last token but one is in curToken and EOF in peekToken
C27_Witness ==
    /\ Len(got) = Len(Lex(input))
    /\ Len(got) >= 3
    /\ peekToken.Type = Eof
    /\ curToken = Lex(input)[Len(got) - 1]
    /\ curToken # Lex(input)[Len(got) - 2]


\* the statements that the lexemes `c ;`, `b`, `d` and `x` parse to
C28_Names(lexemes) ==
    IF lexemes = <<>> THEN <<>> ELSE <<ExprStmt(Id(lexemes[1]))>>

\* the statement `if ( a ) { statements }`
C28_If(statements) ==
    ExprStmt([kind |-> "IfExpression", Condition |-> Id(<<"a">>),
              Consequence |-> [kind |-> "BlockStatement",
                               Statements |-> statements],
              Alternative |-> Nil])

\* C28: parseBlockStatement returns, with curToken the closing brace of its
\* block or EOF; it holds the statements after the opening brace in the
\* order written, the closing brace of an inner block does not end the
\* outer one, and what follows the closing brace of the block is left to
\* the caller.
C28_BlockStatement ==
    /\ ppc # "hung"
    /\ \A n \in SubNodes(program) :
          n.kind = "BlockStatement" =>
             n.Token.Type \in {DelimiterRightBrace, Eof}
    /\ ppc = "done" =>
          \A b \in NestedBefore, i \in NestedInner, a \in NestedAfter,
             tl \in IfTails :
             input = NestedSource(b, i, a, tl) =>
                /\ err.isNil
                /\ Shape(program).Statements =
                      <<C28_If(C28_Names(b) \o <<C28_If(C28_Names(i))>>
                                  \o C28_Names(a))>>
                      \o (IF tl = << <<";">> >> THEN <<>> ELSE C28_Names(tl))


\* the input with one more byte after its first pos bytes
C29_Inserted(pos, byte) ==
    SubSeq(input, 1, pos) \o <<byte>> \o SubSeq(input, pos + 1, Len(input))

\* C29: a space, tab, carriage return or newline put where the lexer stands
\* between two tokens, before the first or after the last, leaves the
\* sequence of tokens as it is (and so does taking it away again).
C29_WhitespaceInsensitive ==
    (lpc = "next" /\ position <= Len(input)) =>
       \A byte \in Whitespace :
          Lex(C29_Inserted(position, byte)) = Lex(input)


\* the substrings input[start:end] that the nextToken call at the cursor
\* extracts: of readString, readIdentifier, readNumber and peekTwoChars
C30_Slices ==
    LET pos == skipWhitespace(input, position)
        ch == peekChar(input, pos)
    IN  CASE ch = "\"" ->
               {[start |-> readChar(pos),
                 end |-> stringEnd(input, readChar(pos))]}
          [] isLetter(ch) ->
               {[start |-> pos, end |-> identifierEnd(input, pos)]}
          [] isDigit(ch) -> {[start |-> pos, end |-> numberEnd(input, pos)]}
          [] ch \in {"=", "!"} /\ ~(pos + 2 >= Len(input)) ->
               {[start |-> pos, end |-> pos + 2]}
          [] OTHER -> {}

\* the state part: the substrings of the next call are within the input and
\* the cursor is at most one past its end
C30_InRange ==
    /\ position <= Len(input) + 1
    /\ lpc = "next" =>
          \A s \in C30_Slices :
             0 <= s.start /\ s.start <= s.end /\ s.end <= Len(input)

\* C30: the cursor never decreases, a nextToken call that returns a token
\* other than EOF moves it on by at least one, and every substring that
\* readString, readIdentifier, readNumber and peekTwoChars extract lies
\* within the input; the cursor is at most len(input) + 1.
C30_CursorAndSlices ==
    /\ []C30_InRange
    /\ [][/\ position' >= position
          /\ (lpc = "next" /\ lpc' = "send" /\ t'.Type # Eof)
                => position' >= position + 1]_vars

\* an unterminated string was read: the cursor is one past the end
C30_Witness ==
    /\ lpc = "send"
    /\ t.Type = TypeString
    /\ position = Len(input) + 1

=============================================================================
